---- MODULE Spec2Model ----
(***************************************************************************)
(* GroundingSpace (lib/src/space/grounding.rs): the content vector, the    *)
(* weak observer list, add / remove / replace / clone and the notification *)
(* of SpaceObserver collectors; the environment initialisation of the C    *)
(* API (c/src/metta.rs).                                                   *)
(***************************************************************************)
EXTENDS Integers, Sequences, FiniteSets, TLC

\* ------------------------------------------------------------------ bounds
MaxCalls == 2        \* add / remove / replace calls per behaviour
MaxRegs == 3         \* register_observer calls per behaviour
NumObservers == 3    \* Rc<RefCell<SpaceEventCollector>> objects
MaxEnvCalls == 4     \* environment_* calls per behaviour
MaxIndexCalls == 3   \* IndexTree add and remove calls per behaviour
MaxInterpSteps == 3  \* interpret_step calls per session

\* ------------------------------------------------------------------- atoms
Sym(n) == [kind |-> "Symbol", name |-> n]

AtomPool == {Sym("a"), Sym("b")}

\* seeds handed to GroundingSpace::from_vec (<<>> is GroundingSpace::new)
Seeds == {<<>>, <<Sym("b")>>, <<Sym("a"), Sym("b")>>}

\* space 1 is the space built by new / from_vec, space 2 its clone
Spaces == {1, 2}

Observers == 1..NumObservers

\* ------------------------------------------------------------ SpaceEvent
AddEvent(a) == <<"Add", a>>

RemoveEvent(a) == <<"Remove", a>>

ReplaceEvent(from, to) == <<"Replace", from, to>>

VARIABLES
    content,     \* content[s]: Vec<Atom> of space s
    observers,   \* observers[s]: Vec<Weak<RefCell<dyn SpaceObserver>>> of s
    cloned,      \* TRUE once space 2 was created by space 1's clone()
    alive,       \* alive[o]: strong_count of observer o is positive
    events,      \* events[o]: the events vector of collector o
    base,        \* history: the content space s was constructed with
    added,       \* history: atoms added to s, while add was the only call
    ncalls,      \* history: number of add / remove / replace calls so far
    last,        \* history: the last call: space, call, return value, and
                 \*          the content of that space before the call
    registered,  \* history: register_observer calls made on each space
    carried,     \* history: the observer list the clone started with
    notified,    \* history: observers notified by the last call, in order
    seen         \* history: seen[o] is the calls made since o was registered

VARIABLES
    envState,    \* CURRENT_ENV_BUILDER.0: the EnvInitState
    envBuilder,  \* CURRENT_ENV_BUILDER.1: Option<EnvBuilder>
    platformEnv, \* the platform environment set by init_platform_env
    envFatal,    \* the panic message of the fatal error that ended the process
    envCalls,    \* history: number of environment_* calls so far
    envLast,     \* history: the last environment_* call and the state before
    envStarts,   \* history: number of environment_init_start calls that returned
    envThreads   \* envThreads[t]: the environment_* call that thread t makes,
                 \*                and the builder it holds between its
                 \*                take_current_builder and replace_current_builder

VARIABLES
    idx,         \* the IndexTree<T>: [next: ListMap<IndexKey, IndexTree>, leaf]
    idxStored,   \* history: the (atom, value) pairs added, live until removed
    idxCalls,    \* history: number of add and remove calls so far
    idxRemoves,  \* history: number of remove calls so far
    idxLast      \* history: the last call, what it returned, the index
                 \*          it found

VARIABLES
    qLast        \* history: the last query, subst, unify or match_ call, the
                 \*          content it ran on, its result

VARIABLES
    interp       \* the step_result_t of the interpreter session: the plan it
                 \* holds, whether it was consumed, what the callback was given

spaceVars == <<content, observers, cloned, alive, events, base, added, ncalls,
               last, registered, carried, notified, seen>>

envVars == <<envState, envBuilder, platformEnv, envFatal, envCalls, envLast,
             envStarts, envThreads>>

idxVars == <<idx, idxStored, idxCalls, idxRemoves, idxLast>>

qVars == <<qLast>>

interpVars == <<interp>>

vars == <<content, observers, cloned, alive, events, base, added, ncalls,
          last, registered, carried, notified, seen,
          envState, envBuilder, platformEnv, envFatal, envCalls, envLast,
          envStarts, envThreads, idx, idxStored, idxCalls, idxRemoves,
          idxLast, qLast, interp>>

\* --------------------------------------------------------------- helpers
Range(seq) == {seq[i] : i \in 1..Len(seq)}

\* the index of the last element equal to a (Iterator::rposition)
PositionLast(seq, a) ==
    IF \E i \in 1..Len(seq) : seq[i] = a
    THEN CHOOSE i \in 1..Len(seq) :
            seq[i] = a /\ \A j \in (i+1)..Len(seq) : seq[j] # a
    ELSE 0

\* Iterator::position: index of the first element equal to a, 0 for None
RECURSIVE PositionFrom(_, _, _)
PositionFrom(seq, a, i) ==
    IF i > Len(seq) THEN 0
    ELSE IF seq[i] = a THEN i
    ELSE PositionFrom(seq, a, i + 1)

Position(seq, a) == PositionFrom(seq, a, 1)

\* Vec::swap_remove(position)
VecSwapRemove(seq, p) ==
    IF p = Len(seq) THEN SubSeq(seq, 1, p - 1)
    ELSE [i \in 1..(Len(seq) - 1) |-> IF i = p THEN seq[Len(seq)] ELSE seq[i]]

\* Vec::remove(position)
VecRemove(seq, p) == SubSeq(seq, 1, p - 1) \o SubSeq(seq, p + 1, Len(seq))

\* Vec::insert(0, a)
VecPushFront(seq, a) == <<a>> \o seq

\* Vec::push
VecPush(seq, a) == Append(seq, a)

\* remove(position) followed by push(to)
VecSetAppend(seq, p, to) == Append(VecRemove(seq, p), to)

\* slice[position] = to
VecSet(seq, p, to) == [seq EXCEPT ![p] = to]

\* one content vector shared by a space and its clone
StoreShared(c, s, v) == [t \in DOMAIN c |-> v]

\* every space owns its content vector: a write to the vector of space s
Store(c, s, v) == [c EXCEPT ![s] = v]

\* Weak::upgrade succeeds
Upgrade(o) == alive[o]

\* no cleanup of the observer list
RetainNone(list) == list

\* observers.retain(|w| w.strong_count() > 0)
Retain(list) == SelectSeq(list, LAMBDA w : alive[w])

\* a notification loop that stops at the first dead weak reference
RECURSIVE NotifyLoopBreak(_, _, _, _)
NotifyLoopBreak(list, i, event, st) ==
    IF i > Len(list) THEN st
    ELSE IF Upgrade(list[i])
    THEN NotifyLoopBreak(list, i + 1, event,
            [events |-> [st.events EXCEPT ![list[i]] = Append(@, event)],
             notified |-> Append(st.notified, list[i]),
             cleanup |-> st.cleanup])
    ELSE [st EXCEPT !.cleanup = TRUE]

\* The for loop of GroundingSpace::notify from index i on: st carries the
\* collectors' event vectors, the observers notified and the cleanup flag.
RECURSIVE NotifyLoop(_, _, _, _)
NotifyLoop(list, i, event, st) ==
    IF i > Len(list) THEN st
    ELSE IF Upgrade(list[i])
    THEN NotifyLoop(list, i + 1, event,
            [events |-> [st.events EXCEPT ![list[i]] = Append(@, event)],
             notified |-> Append(st.notified, list[i]),
             cleanup |-> st.cleanup])
    ELSE NotifyLoop(list, i + 1, event, [st EXCEPT !.cleanup = TRUE])

\* GroundingSpace::notify
Notify(s, event) ==
    LET st == NotifyLoop(observers[s], 1, event,
                  [events |-> events, notified |-> <<>>, cleanup |-> FALSE])
    IN
    /\ events' = st.events
    /\ notified' = st.notified
    /\ observers' = [observers EXCEPT
           ![s] = IF st.cleanup THEN Retain(@) ELSE @]

Exists(s) == s = 1 \/ cloned

\* the observers ever registered with a space or copied by clone
Known == Range(registered[1]) \cup Range(registered[2])

NoCall ==
    [sp |-> 0, ev |-> <<>>, ok |-> FALSE, pre |-> <<>>, afterAdd |-> FALSE,
     pre2 |-> <<>>]

\* the call is remove(A) on the space on which add(A) was the call before
AfterAdd(s, call) ==
    call[1] = "Remove" /\ last.sp = s /\ last.ev = AddEvent(call[2])

\* history of a call on space s
Logged(s, call, ok) ==
    /\ ncalls < MaxCalls
    /\ ncalls' = ncalls + 1
    /\ UNCHANGED <<envVars, idxVars, qVars, interpVars>>
    /\ last' = [sp |-> s, ev |-> call, ok |-> ok, pre |-> content[s],
                afterAdd |-> AfterAdd(s, call),
                pre2 |-> IF AfterAdd(s, call) THEN last.pre ELSE <<>>]
    /\ seen' = [o \in Observers |->
                   IF alive[o] /\ o \in Known
                   THEN Append(seen[o], [sp |-> s, ev |-> call, ok |-> ok])
                   ELSE seen[o]]
    /\ added' = [added EXCEPT
           ![s] = IF call[1] = "Add" /\ @.only
                  THEN [only |-> TRUE, atoms |-> Append(@.atoms, call[2])]
                  ELSE [only |-> FALSE, atoms |-> <<>>]]

\* ---------------------------------------------------------------- actions
\* Option<T>: None is the empty sequence, Some(x) the one-element sequence
None == <<>>

Some(x) == <<x>>

\* the threads of the host that call into the environment API
Threads == {1, 2}

\* a thread that is in no environment_* call
ThreadIdle ==
    [pc |-> "idle", op |-> "none", arg |-> "none", from |-> "none",
     builder |-> None]

\* static CURRENT_ENV_BUILDER = (EnvInitState::Uninitialized, None)
EnvInit ==
    /\ envState = "Uninitialized"
    /\ envBuilder = None
    /\ platformEnv = None
    /\ envFatal = "none"
    /\ envCalls = 0
    /\ envLast = [op |-> "none", from |-> "Uninitialized", arg |-> "none"]
    /\ envStarts = 0
    /\ envThreads = [t \in Threads |-> ThreadIdle]

\* IndexTree::new
IndexTreeNew == [next |-> <<>>, leaf |-> <<>>]

NoIndexCall ==
    [op |-> "none", atom |-> Sym("a"), value |-> 0, ret |-> FALSE, got |-> <<>>,
     pre |-> IndexTreeNew]

IndexInit ==
    /\ idx = IndexTreeNew
    /\ idxStored = <<>>
    /\ idxCalls = 0
    /\ idxRemoves = 0
    /\ idxLast = NoIndexCall

\* no query was made yet
NoQuery == [op |-> "none", query |-> Sym("a"), content |-> <<>>, ok |-> TRUE,
            result |-> <<>>, made |-> FALSE, template |-> Sym("a"),
            atoms |-> <<>>]

QueryInit == qLast = NoQuery

\* no interpreter session was started yet
NoSession ==
    [state |-> "none", expr |-> Sym("a"), atoms |-> <<>>, plan |-> <<>>,
     steps |-> 0, callbacks |-> <<>>]

InterpInit == interp = NoSession

Init ==
    /\ EnvInit
    /\ IndexInit
    /\ QueryInit
    /\ InterpInit
    /\ content \in [Spaces -> Seeds]
    /\ content[2] = <<>>
    /\ observers = [s \in Spaces |-> <<>>]
    /\ cloned = FALSE
    /\ alive = [o \in Observers |-> TRUE]
    /\ events = [o \in Observers |-> <<>>]
    /\ base = content
    /\ added = [s \in Spaces |-> [only |-> TRUE, atoms |-> <<>>]]
    /\ ncalls = 0
    /\ last = NoCall
    /\ registered = [s \in Spaces |-> <<>>]
    /\ carried = <<>>
    /\ notified = <<>>
    /\ seen = [o \in Observers |-> <<>>]

\* GroundingSpace::register_observer. Collectors are interchangeable, so
\* they come into use in index order; one may be registered repeatedly.
RegisterObserver(s, o) ==
    /\ Exists(s)
    /\ alive[o]
    /\ \A p \in Observers : p < o => p \in Known
    /\ Len(registered[1]) + Len(registered[2]) < MaxRegs
    /\ observers' = [observers EXCEPT ![s] = Append(@, o)]
    /\ registered' = [registered EXCEPT ![s] = Append(@, o)]
    /\ UNCHANGED <<content, cloned, alive, events, base, added, ncalls,
                   last, carried, notified, seen>>
    /\ UNCHANGED <<envVars, idxVars, qVars, interpVars>>

\* The last Rc of a registered observer o is dropped: the collector is
\* freed, the Weak entries of the spaces stay until the next cleanup.
DropObserver(o) ==
    /\ alive[o]
    /\ o \in Known
    /\ alive' = [alive EXCEPT ![o] = FALSE]
    /\ events' = [events EXCEPT ![o] = <<>>]
    /\ seen' = [seen EXCEPT ![o] = <<>>]
    /\ UNCHANGED <<content, observers, cloned, base, added, ncalls, last,
                   registered, carried, notified>>
    /\ UNCHANGED <<envVars, idxVars, qVars, interpVars>>

\* GroundingSpace::add
Add(s, atom) ==
    /\ Exists(s)
    /\ Logged(s, AddEvent(atom), TRUE)
    /\ content' = Store(content, s, VecPush(content[s], atom))
    /\ Notify(s, AddEvent(atom))
    /\ UNCHANGED <<cloned, alive, base, registered, carried>>

\* a remove that forgets to notify the observers
RemoveSilent(s, atom) ==
    LET position == Position(content[s], atom) IN
    /\ Exists(s)
    /\ Logged(s, RemoveEvent(atom), position # 0)
    /\ content' = IF position # 0
                  THEN Store(content, s, VecRemove(content[s], position))
                  ELSE content
    /\ notified' = <<>>
    /\ UNCHANGED <<observers, events>>
    /\ UNCHANGED <<cloned, alive, base, registered, carried>>

\* GroundingSpace::remove
Remove(s, atom) ==
    LET position == Position(content[s], atom) IN
    /\ Exists(s)
    /\ IF position # 0
       THEN /\ Logged(s, RemoveEvent(atom), TRUE)
            /\ content' = Store(content, s, VecRemove(content[s], position))
            /\ Notify(s, RemoveEvent(atom))
       ELSE /\ Logged(s, RemoveEvent(atom), FALSE)
            /\ notified' = <<>>
            /\ UNCHANGED <<content, observers, events>>
    /\ UNCHANGED <<cloned, alive, base, registered, carried>>

\* a replace that adds `to` when `from` is not found
ReplaceOrAdd(s, from, to) ==
    LET position == Position(content[s], from) IN
    /\ Exists(s)
    /\ IF position # 0
       THEN /\ Logged(s, ReplaceEvent(from, to), TRUE)
            /\ content' = Store(content, s, VecSet(content[s], position, to))
            /\ Notify(s, ReplaceEvent(from, to))
       ELSE /\ Logged(s, ReplaceEvent(from, to), FALSE)
            /\ content' = Store(content, s, VecPush(content[s], to))
            /\ Notify(s, AddEvent(to))
    /\ UNCHANGED <<cloned, alive, base, registered, carried>>

\* GroundingSpace::replace
Replace(s, from, to) ==
    LET position == Position(content[s], from) IN
    /\ Exists(s)
    /\ IF position # 0
       THEN /\ Logged(s, ReplaceEvent(from, to), TRUE)
            /\ content' = Store(content, s, VecSet(content[s], position, to))
            /\ Notify(s, ReplaceEvent(from, to))
       ELSE /\ Logged(s, ReplaceEvent(from, to), FALSE)
            /\ notified' = <<>>
            /\ UNCHANGED <<content, observers, events>>
    /\ UNCHANGED <<cloned, alive, base, registered, carried>>

\* #[derive(Clone)] for GroundingSpace: every field is cloned
Clone ==
    /\ ~cloned
    /\ cloned' = TRUE
    /\ content' = [content EXCEPT ![2] = content[1]]
    /\ observers' = [observers EXCEPT ![2] = observers[1]]
    /\ base' = [base EXCEPT ![2] = content[1]]
    /\ carried' = observers[1]
    /\ UNCHANGED <<alive, events, added, ncalls, last, registered,
                   notified, seen>>
    /\ UNCHANGED <<envVars, idxVars, qVars, interpVars>>

\* One space and its observers.
Next ==
    \/ \E o \in Observers : RegisterObserver(1, o)
    \/ \E o \in Observers : DropObserver(o)
    \/ \E a \in AtomPool : Add(1, a)
    \/ \E a \in AtomPool : Remove(1, a)
    \/ \E a \in AtomPool, b \in AtomPool : Replace(1, a, b)

Spec == Init /\ [][Next]_vars

\* A space, its clone and one observer.
NextClone ==
    \/ \E s \in Spaces : RegisterObserver(s, 1)
    \/ DropObserver(1)
    \/ \E s \in Spaces, a \in AtomPool : Add(s, a)
    \/ \E s \in Spaces, a \in AtomPool : Remove(s, a)
    \/ \E s \in Spaces, a \in AtomPool, b \in AtomPool : Replace(s, a, b)
    \/ Clone

\* the spaces the clone tests start from: new() and from_vec of one atom
CloneSeeds == {<<>>, <<Sym("b")>>}

InitClone == Init /\ content[1] \in CloneSeeds

SpecClone == InitClone /\ [][NextClone]_vars

\* ------------------------------------------------- environment (C API)
\* the path arguments of the setters; "NULL" is the null pointer
Paths == {"NULL", "p", "q"}

\* EnvBuilder::new
EnvBuilderNew ==
    [working_dir |-> "None", config_dir |-> "default", include_paths |-> <<>>]

\* EnvBuilder::set_working_dir; path "None" unsets it
SetWorkingDir(b, path) == [b EXCEPT !.working_dir = path]

\* EnvBuilder::set_config_dir
SetConfigDir(b, path) == [b EXCEPT !.config_dir = path]

\* EnvBuilder::set_no_config_dir
SetNoConfigDir(b) == [b EXCEPT !.config_dir = "disabled"]

\* EnvBuilder::add_include_paths
AddIncludePaths(b, paths) == [b EXCEPT !.include_paths = @ \o paths]

PanicNoInit ==
    "Fatal Error: no active initialization in process"

PanicOnce == "Fatal Error: environment_init_start must be called only once"

PanicNull == "Fatal Error: path cannot be NULL"

PanicUnwrap == "called Option::unwrap on a None value"

\* history of an environment_* call; a process ended by a fatal error makes
\* no further call
EnvLogged(op, arg) ==
    /\ envFatal = "none"
    /\ envCalls < MaxEnvCalls
    /\ envCalls' = envCalls + 1
    /\ envLast' = [op |-> op, from |-> envState, arg |-> arg]
    /\ UNCHANGED envThreads
    /\ UNCHANGED <<spaceVars, idxVars, qVars, interpVars>>

\* take_current_builder does not panic: the state is the expected one and
\* the slot holds a builder
TakeSucceeds(expected) == envState = expected /\ envBuilder # None

\* the panic of take_current_builder: the state check comes first, then the
\* unwrap of the builder taken out of the slot
TakePanic(expected) ==
    IF envState # expected THEN PanicNoInit ELSE PanicUnwrap

\* the slot after a panicking take_current_builder: core::mem::take has
\* emptied it unless the state check panicked before
TakePanicSlot(expected) ==
    IF envState # expected THEN envBuilder ELSE None

\* the builder taken out of the slot by take_current_builder
Taken == IF envBuilder = None THEN EnvBuilderNew ELSE envBuilder[1]

\* a replace_current_builder that stores the state and loses the builder
ReplaceCurrentBuilderLost(new_state, builder) ==
    /\ envState' = new_state
    /\ envBuilder' = None

\* replace_current_builder
ReplaceCurrentBuilder(new_state, builder) ==
    /\ envState' = new_state
    /\ envBuilder' = builder

\* an init_start that starts over whatever the state is
EnvironmentInitStartAgain ==
    /\ EnvLogged("init_start", "none")
    /\ envState' = "InProcess"
    /\ envBuilder' = Some(EnvBuilderNew)
    /\ envStarts' = envStarts + 1
    /\ UNCHANGED <<envFatal, platformEnv>>

\* environment_init_start
EnvironmentInitStart ==
    /\ EnvLogged("init_start", "none")
    /\ IF envState # "Uninitialized"
       THEN /\ envFatal' = PanicOnce
            /\ UNCHANGED <<envState, envBuilder, platformEnv, envStarts>>
       ELSE /\ envState' = "InProcess"
            /\ envBuilder' = Some(EnvBuilderNew)
            /\ envStarts' = envStarts + 1
            /\ UNCHANGED <<envFatal, platformEnv>>

\* environment_init_finish
EnvironmentInitFinish ==
    /\ EnvLogged("init_finish", "none")
    /\ UNCHANGED envStarts
    /\ IF ~TakeSucceeds("InProcess")
       THEN /\ envFatal' = TakePanic("InProcess")
            /\ envBuilder' = TakePanicSlot("InProcess")
            /\ UNCHANGED <<envState, platformEnv>>
       ELSE /\ platformEnv' = Some(Taken)
            /\ ReplaceCurrentBuilder("Finished", None)
            /\ UNCHANGED envFatal

\* The body shared by the four setters: take the builder, panic on a NULL
\* path where the setter rejects it, else put the changed builder back.
EnvSetter(op, path, nullPanics, changed) ==
    /\ EnvLogged(op, path)
    /\ UNCHANGED envStarts
    /\ IF ~TakeSucceeds("InProcess")
       THEN /\ envFatal' = TakePanic("InProcess")
            /\ envBuilder' = TakePanicSlot("InProcess")
            /\ UNCHANGED <<envState, platformEnv>>
       ELSE IF nullPanics /\ path = "NULL"
       THEN /\ envFatal' = PanicNull
            /\ envBuilder' = None
            /\ UNCHANGED <<envState, platformEnv>>
       ELSE /\ ReplaceCurrentBuilder("InProcess", Some(changed))
            /\ UNCHANGED <<envFatal, platformEnv>>

\* environment_init_set_working_dir
EnvironmentInitSetWorkingDir(path) ==
    EnvSetter("set_working_dir", path, FALSE,
              SetWorkingDir(Taken, IF path = "NULL" THEN "None" ELSE path))

\* environment_init_set_config_dir
EnvironmentInitSetConfigDir(path) ==
    EnvSetter("set_config_dir", path, TRUE, SetConfigDir(Taken, path))

\* environment_init_disable_config_dir
EnvironmentInitDisableConfigDir ==
    EnvSetter("disable_config_dir", "none", FALSE, SetNoConfigDir(Taken))

\* environment_init_add_include_path
EnvironmentInitAddIncludePath(path) ==
    EnvSetter("add_include_path", path, TRUE, AddIncludePaths(Taken, <<path>>))

\* The environment calls of a single-threaded host.
NextEnv ==
    \/ EnvironmentInitStart
    \/ EnvironmentInitFinish
    \/ \E path \in Paths : EnvironmentInitSetWorkingDir(path)
    \/ \E path \in Paths : EnvironmentInitSetConfigDir(path)
    \/ EnvironmentInitDisableConfigDir
    \/ \E path \in Paths : EnvironmentInitAddIncludePath(path)

\* the spaces of a host that only sets up the environment or an index
SpaceIdle ==
    /\ content = [s \in Spaces |-> <<>>]
    /\ observers = [s \in Spaces |-> <<>>]
    /\ cloned = FALSE
    /\ alive = [o \in Observers |-> TRUE]
    /\ events = [o \in Observers |-> <<>>]
    /\ base = content
    /\ added = [s \in Spaces |-> [only |-> TRUE, atoms |-> <<>>]]
    /\ ncalls = 0
    /\ last = NoCall
    /\ registered = [s \in Spaces |-> <<>>]
    /\ carried = <<>>
    /\ notified = <<>>
    /\ seen = [o \in Observers |-> <<>>]

InitEnv == EnvInit /\ IndexInit /\ QueryInit /\ InterpInit /\ SpaceIdle

SpecEnv == InitEnv /\ [][NextEnv]_vars

\* ------------------------------------------- environment, two threads
\* the calls the threads make: a setter or environment_init_finish
ThreadCalls ==
    { [op |-> "set_working_dir", arg |-> "p"],
      [op |-> "set_working_dir", arg |-> "NULL"],
      [op |-> "set_config_dir", arg |-> "q"],
      [op |-> "set_config_dir", arg |-> "NULL"],
      [op |-> "disable_config_dir", arg |-> "none"],
      [op |-> "add_include_path", arg |-> "p"],
      [op |-> "init_finish", arg |-> "none"] }

\* the setters that panic on a NULL path
RejectsNull(op) == op \in {"set_config_dir", "add_include_path"}

\* the builder a setter makes of the builder it took
Changed(op, arg, b) ==
    CASE op = "set_working_dir" ->
            SetWorkingDir(b, IF arg = "NULL" THEN "None" ELSE arg)
      [] op = "set_config_dir" -> SetConfigDir(b, arg)
      [] op = "disable_config_dir" -> SetNoConfigDir(b)
      [] op = "add_include_path" -> AddIncludePaths(b, <<arg>>)

\* Thread t enters a call and runs its take_current_builder: one critical
\* section of the mutex. The panic of a thread is the fatal error of the
\* process.
ThreadTake(t, call) ==
    /\ envThreads[t].pc = "idle"
    /\ envFatal = "none"
    /\ envCalls < MaxEnvCalls
    /\ envCalls' = envCalls + 1
    /\ envLast' = [op |-> call.op, from |-> envState, arg |-> call.arg]
    /\ IF ~TakeSucceeds("InProcess")
       THEN /\ envFatal' = TakePanic("InProcess")
            /\ envBuilder' = TakePanicSlot("InProcess")
            /\ envThreads' = [envThreads EXCEPT ![t] =
                   [pc |-> "panicked", op |-> call.op, arg |-> call.arg,
                    from |-> envState, builder |-> None]]
       ELSE /\ envBuilder' = None
            /\ envThreads' = [envThreads EXCEPT ![t] =
                   [pc |-> "taken", op |-> call.op, arg |-> call.arg,
                    from |-> envState, builder |-> envBuilder]]
            /\ UNCHANGED envFatal
    /\ UNCHANGED <<envState, platformEnv, envStarts>>
    /\ UNCHANGED <<spaceVars, idxVars, qVars, interpVars>>

\* Thread t runs the rest of its call: the NULL check of the setter or
\* init_platform_env, then replace_current_builder, the second critical
\* section.
ThreadReplace(t) ==
    LET call == envThreads[t]
        stopped(pc) == [envThreads EXCEPT ![t] = [call EXCEPT !.pc = pc,
                                                        !.builder = None]]
    IN  /\ call.pc = "taken"
        /\ envFatal = "none"
        /\ IF call.op = "init_finish"
           THEN /\ platformEnv' = Some(call.builder[1])
                /\ ReplaceCurrentBuilder("Finished", None)
                /\ envThreads' = stopped("done")
                /\ UNCHANGED envFatal
           ELSE IF RejectsNull(call.op) /\ call.arg = "NULL"
           THEN /\ envFatal' = PanicNull
                /\ envThreads' = stopped("panicked")
                /\ UNCHANGED <<envState, envBuilder, platformEnv>>
           ELSE /\ ReplaceCurrentBuilder("InProcess",
                       Some(Changed(call.op, call.arg, call.builder[1])))
                /\ envThreads' = stopped("done")
                /\ UNCHANGED <<envFatal, platformEnv>>
        /\ UNCHANGED <<envCalls, envLast, envStarts>>
        /\ UNCHANGED <<spaceVars, idxVars, qVars, interpVars>>

\* environment_init_start by the main thread, then one call of each thread
NextEnvThreads ==
    \/ EnvironmentInitStart
    \/ \E t \in Threads, call \in ThreadCalls : ThreadTake(t, call)
    \/ \E t \in Threads : ThreadReplace(t)

SpecEnvThreads == InitEnv /\ [][NextEnvThreads]_vars

\* ------------------------------------------------------------ IndexTree
Var(n) == [kind |-> "Variable", name |-> n]

Gnd(v) == [kind |-> "Grounded", value |-> v]

Expr(children) == [kind |-> "Expression", children |-> children]

\* enum IndexKey
KeySymbol(sym) == [k |-> "Symbol", sym |-> sym]

KeyWildcard == [k |-> "Wildcard"]

KeyExpressionBegin(expr, expr_len) ==
    [k |-> "ExpressionBegin", expr |-> expr, len |-> expr_len]

KeyExpressionEnd == [k |-> "ExpressionEnd"]

RECURSIVE KeysFromAtom(_), ChildrenKeys(_, _)

\* the keys of children[i], children[i-1], .., children[1], in this order
ChildrenKeys(children, i) ==
    IF i = 0 THEN <<>>
    ELSE KeysFromAtom(children[i]) \o ChildrenKeys(children, i - 1)

\* a keys_from_atom that leaves the ExpressionEnd key out of expr_len
KeysFromAtomShort(atom) ==
    CASE atom.kind = "Symbol" -> <<KeySymbol(atom)>>
      [] atom.kind = "Expression" ->
            LET inner == ChildrenKeys(atom.children, Len(atom.children)) IN
            <<KeyExpressionEnd>> \o inner
                \o <<KeyExpressionBegin(atom, Len(inner))>>
      [] OTHER -> <<KeyWildcard>>

\* IndexKey::keys_from_atom; the walk pops the keys from the end
KeysFromAtom(atom) ==
    CASE atom.kind = "Symbol" -> <<KeySymbol(atom)>>
      [] atom.kind = "Expression" ->
            LET inner == ChildrenKeys(atom.children, Len(atom.children)) IN
            <<KeyExpressionEnd>> \o inner
                \o <<KeyExpressionBegin(atom, 1 + Len(inner))>>
      [] OTHER -> <<KeyWildcard>>

\* Vec::pop: the last element and the rest
Top(vec) == vec[Len(vec)]

Popped(vec) == SubSeq(vec, 1, Len(vec) - 1)

\* ListMap::get: the position of the entry of key, 0 when there is none
ListMapGet(next, key) ==
    IF \E i \in 1..Len(next) : next[i].key = key
    THEN CHOOSE i \in 1..Len(next) : next[i].key = key
    ELSE 0

RECURSIVE NodeAt(_, _), SetNodeAt(_, _, _)

\* the node a pointer refers to; a pointer is the sequence of entry
\* positions leading from the root to the node
NodeAt(tree, ptr) ==
    IF ptr = <<>> THEN tree
    ELSE NodeAt(tree.next[Head(ptr)].node, Tail(ptr))

\* the tree after a write through a pointer
SetNodeAt(tree, ptr, node) ==
    IF ptr = <<>> THEN node
    ELSE [tree EXCEPT !.next[Head(ptr)].node = SetNodeAt(@, Tail(ptr), node)]

\* an entry of the walk's queue
Entry(ptr, keys) == [ptr |-> ptr, keys |-> keys]

\* the keys left after the expression a ExpressionBegin key opens
Tail_(keys, expr_len) == SubSeq(keys, 1, Len(keys) - expr_len)

\* a next_or_insert without the path that skips the expression
NextOrInsertNoSkip(tree, ptr, key, keys) ==
    LET node == NodeAt(tree, ptr)
        found == ListMapGet(node.next, key)
        pos == IF found # 0 THEN found ELSE Len(node.next) + 1
        inserted ==
            IF found # 0 THEN tree
            ELSE SetNodeAt(tree, ptr,
                     [node EXCEPT !.next =
                         Append(@, [key |-> key, node |-> IndexTreeNew])])
    IN  [tree |-> inserted, pushed |-> <<Entry(Append(ptr, pos), keys)>>]

\* IndexTree::next_or_insert: the tree after the insertion, and the entries
\* handed to the callback
NextOrInsert(tree, ptr, key, keys) ==
    LET node == NodeAt(tree, ptr)
        found == ListMapGet(node.next, key)
        pos == IF found # 0 THEN found ELSE Len(node.next) + 1
        inserted ==
            IF found # 0 THEN tree
            ELSE SetNodeAt(tree, ptr,
                     [node EXCEPT !.next =
                         Append(@, [key |-> key, node |-> IndexTreeNew])])
        child == Append(ptr, pos)
    IN  [tree |-> inserted,
         pushed |-> IF key.k = "ExpressionBegin"
                    THEN <<Entry(child, Tail_(keys, key.len)),
                           Entry(child, keys)>>
                    ELSE <<Entry(child, keys)>>]

\* the entries of the ListMap whose key is of one of the kinds, in
\* iteration order, as queue entries
Children(node, ptr, keys, kinds) ==
    LET positions == SelectSeq([i \in 1..Len(node.next) |-> i],
                               LAMBDA i : node.next[i].key.k \in kinds)
    IN  [j \in 1..Len(positions) |-> Entry(Append(ptr, positions[j]), keys)]

\* ListMap::get(key).map_or((), callback)
Follow(node, ptr, key, keys) ==
    LET pos == ListMapGet(node.next, key) IN
    IF pos = 0 THEN <<>> ELSE <<Entry(Append(ptr, pos), keys)>>

\* an IndexTree::next that follows every symbol for a symbol key
IndexTreeNextAnySymbol(tree, ptr, key, keys) ==
    LET node == NodeAt(tree, ptr) IN
    CASE key.k = "Symbol" ->
            Children(node, ptr, keys, {"Symbol"})
            \o Follow(node, ptr, KeyWildcard, keys)
      [] key.k = "ExpressionEnd" -> Follow(node, ptr, key, keys)
      [] key.k = "ExpressionBegin" ->
            Follow(node, ptr, KeyWildcard, Tail_(keys, key.len))
            \o (IF ListMapGet(node.next, key) # 0
                THEN Follow(node, ptr, key, keys)
                ELSE Children(node, ptr, keys, {"ExpressionBegin"}))
      [] key.k = "Wildcard" ->
            Children(node, ptr, keys,
                     {"Symbol", "Wildcard", "ExpressionBegin"})

\* IndexTree::next: the entries handed to the callback
IndexTreeNext(tree, ptr, key, keys) ==
    LET node == NodeAt(tree, ptr) IN
    CASE key.k = "Symbol" ->
            Follow(node, ptr, key, keys) \o Follow(node, ptr, KeyWildcard, keys)
      [] key.k = "ExpressionEnd" -> Follow(node, ptr, key, keys)
      [] key.k = "ExpressionBegin" ->
            Follow(node, ptr, KeyWildcard, Tail_(keys, key.len))
            \o (IF ListMapGet(node.next, key) # 0
                THEN Follow(node, ptr, key, keys)
                ELSE Children(node, ptr, keys, {"ExpressionBegin"}))
      [] key.k = "Wildcard" ->
            Children(node, ptr, keys,
                     {"Symbol", "Wildcard", "ExpressionBegin"})

\* IndexTree::remove_value: the leaf without the first occurrence of value
RemoveValue(leaf, value) ==
    LET position == Position(leaf, value) IN
    IF position # 0 THEN VecRemove(leaf, position) ELSE leaf

RECURSIVE AddWalk(_, _, _), GetWalk(_, _), RemoveWalk(_, _, _, _)

\* IndexTreeIterMut driven by next_or_insert, push of value at every node
\* the iterator yields
AddWalk(tree, queue, value) ==
    IF queue = <<>> THEN tree
    ELSE LET e == Top(queue) IN
         IF e.keys = <<>>
         THEN AddWalk(SetNodeAt(tree, e.ptr,
                          [NodeAt(tree, e.ptr) EXCEPT !.leaf = VecPush(@, value)]),
                      Popped(queue), value)
         ELSE LET step == NextOrInsert(tree, e.ptr, Top(e.keys), Popped(e.keys))
              IN  AddWalk(step.tree, Popped(queue) \o step.pushed, value)

\* IndexTreeIter driven by next, flat_map over the leaves of the nodes the
\* iterator yields
GetWalk(tree, queue) ==
    IF queue = <<>> THEN <<>>
    ELSE LET e == Top(queue) IN
         IF e.keys = <<>>
         THEN NodeAt(tree, e.ptr).leaf \o GetWalk(tree, Popped(queue))
         ELSE GetWalk(tree, Popped(queue)
                  \o IndexTreeNext(tree, e.ptr, Top(e.keys), Popped(e.keys)))

\* IndexTreeIterMut driven by ListMap::get_mut, remove_value at every node
\* the iterator yields, fold of the results with |
RemoveWalk(tree, queue, value, acc) ==
    IF queue = <<>> THEN [tree |-> tree, ret |-> acc]
    ELSE LET e == Top(queue) IN
         IF e.keys = <<>>
         THEN LET node == NodeAt(tree, e.ptr) IN
              RemoveWalk(SetNodeAt(tree, e.ptr,
                             [node EXCEPT !.leaf = RemoveValue(@, value)]),
                         Popped(queue), value,
                         acc \/ Position(node.leaf, value) # 0)
         ELSE RemoveWalk(tree,
                  Popped(queue) \o Follow(NodeAt(tree, e.ptr), e.ptr,
                                          Top(e.keys), Popped(e.keys)),
                  value, acc)

\* IndexTree::add
IndexTreeAdd(tree, key, value) ==
    AddWalk(tree, <<Entry(<<>>, KeysFromAtom(key))>>, value)

\* IndexTree::remove
IndexTreeRemove(tree, key, value) ==
    RemoveWalk(tree, <<Entry(<<>>, KeysFromAtom(key))>>, value, FALSE)

\* IndexTree::get
IndexTreeGet(tree, pattern) ==
    GetWalk(tree, <<Entry(<<>>, KeysFromAtom(pattern))>>)

\* the atoms stored in the index and the payloads stored for them
IndexAtoms ==
    { Sym("A"), Var("a"), Gnd(1),
      Expr(<<Sym("A"), Sym("B")>>),
      Expr(<<Sym("A"), Var("a")>>),
      Expr(<<Expr(<<Sym("A")>>), Sym("B")>>),
      Expr(<<Var("a"), Sym("C")>>) }

Values == {1, 2}

\* the patterns looked up
IndexPatterns ==
    { Sym("A"), Sym("B"), Var("b"),
      Expr(<<Sym("A"), Sym("B")>>),
      Expr(<<Var("a"), Sym("B")>>),
      Expr(<<Expr(<<Sym("A")>>), Sym("B")>>),
      Expr(<<Expr(<<Sym("A")>>), Sym("C")>>) }

\* an (atom, value) pair of the history
Pair(atom, value, live) == [atom |-> atom, value |-> value, live |-> live]

\* the history with the first live occurrence of a pair marked as removed
Unstored(atom, value) ==
    LET position == Position(idxStored, Pair(atom, value, TRUE)) IN
    IF position # 0
    THEN [idxStored EXCEPT ![position] = Pair(atom, value, FALSE)]
    ELSE idxStored

\* the payloads are interchangeable: the first call uses the first one
FirstValueFirst(value) == idxCalls > 0 \/ value = 1

IndexLogged(op, atom, value, ret, got) ==
    /\ idxLast' = [op |-> op, atom |-> atom, value |-> value, ret |-> ret,
                   got |-> got, pre |-> idx]
    /\ UNCHANGED <<spaceVars, envVars, qVars, interpVars>>

\* index.add(&atom, value)
IndexAdd(atom, value) ==
    /\ idxCalls < MaxIndexCalls
    /\ FirstValueFirst(value)
    /\ idxCalls' = idxCalls + 1
    /\ idx' = IndexTreeAdd(idx, atom, value)
    /\ idxStored' = Append(idxStored, Pair(atom, value, TRUE))
    /\ IndexLogged("add", atom, value, FALSE, <<>>)
    /\ UNCHANGED idxRemoves

\* index.remove(&atom, &value)
IndexRemove(atom, value) ==
    LET removed == IndexTreeRemove(idx, atom, value) IN
    /\ idxCalls < MaxIndexCalls
    /\ FirstValueFirst(value)
    /\ idxCalls' = idxCalls + 1
    /\ idxRemoves' = idxRemoves + 1
    /\ idx' = removed.tree
    /\ idxStored' = Unstored(atom, value)
    /\ IndexLogged("remove", atom, value, removed.ret, <<>>)

\* index.get(&pattern), collected
IndexGet(pattern) ==
    /\ IndexLogged("get", pattern, 0, FALSE, IndexTreeGet(idx, pattern))
    /\ UNCHANGED <<idx, idxStored, idxCalls, idxRemoves>>

NextIndex ==
    \/ \E atom \in IndexAtoms, value \in Values : IndexAdd(atom, value)
    \/ \E atom \in IndexAtoms, value \in Values : IndexRemove(atom, value)
    \/ \E pattern \in IndexPatterns : IndexGet(pattern)

InitIndex == EnvInit /\ IndexInit /\ QueryInit /\ InterpInit /\ SpaceIdle

SpecIndex == InitIndex /\ [][NextIndex]_vars

\* ----------------------------------------------------------------- query
\* COMMA_SYMBOL
COMMA_SYMBOL == Sym(",")

IsVar(atom) == atom.kind = "Variable"

IsExpr(atom) == atom.kind = "Expression"

\* Bindings: a function from variables to atoms; bind!{} is the empty one
EmptyBindings == <<>>

RECURSIVE CollectVariables(_)

\* collect_variables
CollectVariables(atom) ==
    IF IsVar(atom) THEN {atom}
    ELSE IF IsExpr(atom)
    THEN UNION {CollectVariables(atom.children[i]) :
                    i \in 1..Len(atom.children)}
    ELSE {}

RECURSIVE MakeVariablesUnique(_, _)

\* make_variables_unique: every variable gets the freshness counter id
MakeVariablesUnique(atom, id) ==
    IF IsVar(atom)
    THEN [kind |-> "Variable", name |-> atom.name, id |-> id]
    ELSE IF IsExpr(atom)
    THEN Expr([i \in 1..Len(atom.children) |->
                   MakeVariablesUnique(atom.children[i], id)])
    ELSE atom

RECURSIVE ApplyBindingsToAtom(_, _)

\* matcher::apply_bindings_to_atom: variables not present pass through
ApplyBindingsToAtom(atom, bindings) ==
    IF IsVar(atom)
    THEN IF atom \in DOMAIN bindings THEN bindings[atom] ELSE atom
    ELSE IF IsExpr(atom)
    THEN Expr([i \in 1..Len(atom.children) |->
                   ApplyBindingsToAtom(atom.children[i], bindings)])
    ELSE atom

RECURSIVE Walk(_, _), Resolve(_, _), OccursIn(_, _, _)

\* the atom a variable stands for under the bindings made so far
Walk(atom, sigma) ==
    IF IsVar(atom) /\ atom \in DOMAIN sigma
    THEN Walk(sigma[atom], sigma)
    ELSE atom

\* the atom with the bindings applied until nothing changes
Resolve(atom, sigma) ==
    LET w == Walk(atom, sigma) IN
    IF IsExpr(w)
    THEN Expr([i \in 1..Len(w.children) |-> Resolve(w.children[i], sigma)])
    ELSE w

\* occurs check
OccursIn(var, atom, sigma) ==
    LET w == Walk(atom, sigma) IN
    IF IsVar(w) THEN w = var
    ELSE IF IsExpr(w)
    THEN \E i \in 1..Len(w.children) : OccursIn(var, w.children[i], sigma)
    ELSE FALSE

\* Bindings::insert of a variable that has no binding yet
Insert(var, atom, sigma) ==
    IF OccursIn(var, atom, sigma) THEN None ELSE Some((var :> atom) @@ sigma)

RECURSIVE MatchUnder(_, _, _), MatchChildren(_, _, _, _)

\* the structural descent of the matcher: a variable of the query is bound
\* first, then a placeholder of the data; an existing binding is unified
\* with the new one; expressions match pairwise and in order
MatchUnder(data, pattern, sigma) ==
    LET d == Walk(data, sigma)
        p == Walk(pattern, sigma)
    IN  IF d = p THEN Some(sigma)
        ELSE IF IsVar(p) THEN Insert(p, d, sigma)
        ELSE IF IsVar(d) THEN Insert(d, p, sigma)
        ELSE IF /\ IsExpr(d) /\ IsExpr(p)
                /\ Len(d.children) = Len(p.children)
        THEN MatchChildren(d.children, p.children, 1, sigma)
        ELSE None

MatchChildren(ds, ps, i, sigma) ==
    IF i > Len(ds) THEN Some(sigma)
    ELSE LET m == MatchUnder(ds[i], ps[i], sigma) IN
         IF m = None THEN None ELSE MatchChildren(ds, ps, i + 1, m[1])

\* a matcher for which everything matches
MatchAtomsAnything(data, pattern) == <<EmptyBindings>>

\* match_atoms(data, pattern): the sequence of Bindings of the variables
\* of the pattern, empty iff there is no match
MatchAtoms(data, pattern) ==
    LET m == MatchUnder(data, pattern, EmptyBindings) IN
    IF m = None THEN <<>>
    ELSE <<[v \in CollectVariables(pattern) \cap DOMAIN m[1] |->
              Resolve(v, m[1])]>>

\* matcher::apply_bindings_to_bindings: every value of dst with src
\* applied; an error when a variable ends up inside its own value
ApplyBindingsToBindings(src, dst) ==
    LET applied == [k \in DOMAIN dst |-> ApplyBindingsToAtom(dst[k], src)] IN
    IF \E k \in DOMAIN dst : k \in CollectVariables(applied[k])
    THEN None
    ELSE Some(applied)

\* Bindings::merge: the union, None when a common key maps to atoms that
\* do not unify
BindingsMerge(prev, next) ==
    IF \A k \in DOMAIN prev \cap DOMAIN next :
           MatchUnder(prev[k], next[k], EmptyBindings) # None
    THEN Some([k \in DOMAIN prev \cup DOMAIN next |->
                  IF k \in DOMAIN prev THEN prev[k] ELSE next[k]])
    ELSE None

\* a Bindings::filter that keeps every key
BindingsFilterNothing(bindings, keep) == bindings

\* Bindings::filter(|k, _v| vars.contains(k))
BindingsFilter(bindings, keep) ==
    [k \in DOMAIN bindings \cap keep |-> bindings[k]]

\* the value of a query: the vector returned, or a panic
Returned(result) == [ok |-> TRUE, result |-> result]

Panicked == [ok |-> FALSE, result |-> <<>>]

RECURSIVE SingleQueryFrom(_, _, _, _)

\* the loop of single_query from content[i] on; the freshness counter of
\* the i-th atom is the call's id followed by i
SingleQueryFrom(atoms, query, id, i) ==
    IF i > Len(atoms) THEN <<>>
    ELSE MatchAtoms(MakeVariablesUnique(atoms[i], Append(id, i)), query)
         \o SingleQueryFrom(atoms, query, id, i + 1)

\* a single_query that stops at the first content atom that matches
SingleQueryFirst(atoms, query, id) ==
    LET all == SingleQueryFrom(atoms, query, id, 1) IN
    IF all = <<>> THEN <<>> ELSE <<all[1]>>

\* a single_query that walks the content from its end
SingleQueryBackwards(atoms, query, id) ==
    LET all == SingleQueryFrom(atoms, query, id, 1) IN
    [n \in 1..Len(all) |-> all[Len(all) + 1 - n]]

\* GroundingSpace::single_query
SingleQuery(atoms, query, id) == SingleQueryFrom(atoms, query, id, 1)

RECURSIVE Query(_, _, _), QueryFold(_, _, _, _, _), QueryPrevs(_, _, _, _, _, _),
          MergeNexts(_, _, _)

\* a query that takes every atom for a single pattern
QuerySingleOnly(atoms, query, id) == Returned(SingleQuery(atoms, query, id))

\* a merge loop that keeps the inner results and forgets prev
MergeNextsForget(prev, res, k) == Returned(res)

\* res.drain(0..).map(merge).filter(is_some).map(unwrap)
\*    .map(apply_bindings_to_bindings(..).expect(..)).collect(), from the
\* k-th element of res on
MergeNexts(prev, res, k) ==
    IF k > Len(res) THEN Returned(<<>>)
    ELSE LET merged == BindingsMerge(prev, res[k])
             rest == MergeNexts(prev, res, k + 1)
         IN  IF merged = None THEN rest
             ELSE LET closed == ApplyBindingsToBindings(merged[1], merged[1])
                  IN  IF closed = None \/ ~rest.ok THEN Panicked
                      ELSE Returned(<<closed[1]>> \o rest.result)

\* acc.drain(0..).flat_map(|prev| ..).collect(), from the p-th element of
\* acc on, for the j-th child of the compound query
QueryPrevs(atoms, query, acc, p, j, id) ==
    IF p > Len(acc) THEN Returned(<<>>)
    ELSE LET res == Query(atoms, ApplyBindingsToAtom(query, acc[p]),
                          id \o <<j, p>>)
             nexts == IF res.ok THEN MergeNexts(acc[p], res.result, 1)
                      ELSE Panicked
             rest == QueryPrevs(atoms, query, acc, p + 1, j, id)
         IN  IF ~nexts.ok \/ ~rest.ok THEN Panicked
             ELSE Returned(nexts.result \o rest.result)

\* args.fold(vec![bind!{}], ..) from the j-th child of the compound query on
QueryFold(atoms, children, j, acc, id) ==
    IF j > Len(children) THEN Returned(acc)
    ELSE IF acc = <<>> THEN QueryFold(atoms, children, j + 1, acc, id)
    ELSE LET step == QueryPrevs(atoms, children[j], acc, 1, j, id) IN
         IF ~step.ok THEN Panicked
         ELSE QueryFold(atoms, children, j + 1, step.result, id)

\* GroundingSpace::query
Query(atoms, query, id) ==
    IF /\ IsExpr(query) /\ Len(query.children) > 0
       /\ query.children[1] = COMMA_SYMBOL
    THEN LET keep == CollectVariables(query)
             folded == QueryFold(atoms, query.children, 2,
                                 <<EmptyBindings>>, id)
         IN  IF ~folded.ok THEN Panicked
             ELSE Returned([n \in 1..Len(folded.result) |->
                               BindingsFilter(folded.result[n], keep)])
    ELSE Returned(SingleQuery(atoms, query, id))

\* the atoms the space is made of and mutated with
QueryAtoms ==
    { Expr(<<Sym("A"), Sym("B")>>),
      Expr(<<Sym("B"), Sym("C")>>),
      Expr(<<Sym("P"), Sym("A"), Sym("B")>>),
      Expr(<<Sym("P"), Var("t"), Var("t")>>) }

\* GroundingSpace::from_vec of these
QuerySeeds ==
    { <<>>,
      <<Expr(<<Sym("A"), Sym("B")>>), Expr(<<Sym("B"), Sym("C")>>)>>,
      <<Expr(<<Sym("P"), Sym("A"), Sym("B")>>)>>,
      <<Expr(<<Sym("P"), Var("t"), Var("t")>>), Expr(<<Sym("A"), Sym("B")>>)>> }

\* the queries made
Queries ==
    { Var("x"),
      Expr(<<Sym("A"), Sym("B")>>),
      Expr(<<Sym("A"), Var("x")>>),
      Expr(<<Sym("P"), Var("a"), Var("a")>>),
      Expr(<<Sym("P"), Sym("A"), Var("y")>>),
      Expr(<<COMMA_SYMBOL, Expr(<<Sym("A"), Var("x")>>),
                           Expr(<<Var("x"), Sym("C")>>)>>),
      Expr(<<COMMA_SYMBOL, Expr(<<Var("x"), Sym("C")>>),
                           Expr(<<Sym("A"), Var("y")>>)>>),
      Expr(<<COMMA_SYMBOL, Expr(<<Sym("P"), Var("x"), Var("y")>>),
                           Expr(<<Sym("A"), Var("x")>>)>>) }

\* a query that drains the content it walked
QueryCallDraining(s, query) ==
    LET value == Query(content[s], query, <<>>) IN
    /\ Exists(s)
    /\ qLast' = [op |-> "query", query |-> query, content |-> content[s],
                 ok |-> value.ok, result |-> value.result, made |-> TRUE,
                 template |-> query, atoms |-> <<>>]
    /\ content' = [content EXCEPT ![s] = <<>>]
    /\ UNCHANGED <<observers, cloned, alive, events, base, added, ncalls,
                   last, registered, carried, notified, seen>>
    /\ UNCHANGED <<envVars, idxVars, interpVars>>

\* space.query(&query)
QueryCall(s, query) ==
    LET value == Query(content[s], query, <<>>) IN
    /\ Exists(s)
    /\ qLast' = [op |-> "query", query |-> query, content |-> content[s],
                 ok |-> value.ok, result |-> value.result, made |-> TRUE,
                 template |-> query, atoms |-> <<>>]
    /\ UNCHANGED <<spaceVars, envVars, idxVars, interpVars>>

\* the atoms put in the place of another
QueryReplacements ==
    { Expr(<<Sym("A"), Sym("B")>>), Expr(<<Sym("P"), Var("t"), Var("t")>>) }

NextQuery ==
    \/ \E a \in QueryAtoms : Add(1, a)
    \/ \E a \in QueryAtoms : Remove(1, a)
    \/ \E a \in QueryAtoms, b \in QueryReplacements : Replace(1, a, b)
    \/ \E q \in Queries : QueryCall(1, q)

InitQuery ==
    /\ EnvInit
    /\ IndexInit
    /\ QueryInit
    /\ InterpInit
    /\ content \in [Spaces -> QuerySeeds]
    /\ content[2] = <<>>
    /\ observers = [s \in Spaces |-> <<>>]
    /\ cloned = FALSE
    /\ alive = [o \in Observers |-> TRUE]
    /\ events = [o \in Observers |-> <<>>]
    /\ base = content
    /\ added = [s \in Spaces |-> [only |-> TRUE, atoms |-> <<>>]]
    /\ ncalls = 0
    /\ last = NoCall
    /\ registered = [s \in Spaces |-> <<>>]
    /\ carried = <<>>
    /\ notified = <<>>
    /\ seen = [o \in Observers |-> <<>>]

SpecQuery == InitQuery /\ [][NextQuery]_vars

\* ------------------------------------------------- subst, unify, match_
\* a subst that applies the Bindings to the pattern
SubstPattern(atoms, pattern, template, id) ==
    LET found == Query(atoms, pattern, id) IN
    IF ~found.ok THEN Panicked
    ELSE Returned([n \in 1..Len(found.result) |->
                      ApplyBindingsToAtom(pattern, found.result[n])])

\* GroundingSpace::subst
Subst(atoms, pattern, template, id) ==
    LET found == Query(atoms, pattern, id) IN
    IF ~found.ok THEN Panicked
    ELSE Returned([n \in 1..Len(found.result) |->
                      ApplyBindingsToAtom(template, found.result[n])])

\* matcher::unify_atoms: the symmetric mode, in which a variable of either
\* side may be bound; no grounded atom has a match of its own, so no
\* unification is left over
UnifyAtoms(data, pattern) ==
    LET m == MatchUnder(data, pattern, EmptyBindings) IN
    IF m = None THEN None
    ELSE Some([data_bindings |->
                  [v \in CollectVariables(data) \cap DOMAIN m[1] |-> m[1][v]],
               pattern_bindings |->
                  [v \in (CollectVariables(pattern) \ CollectVariables(data))
                             \cap DOMAIN m[1] |-> m[1][v]],
               unifications |-> <<>>])

RECURSIVE UnifyFrom(_, _, _)

\* the loop of unify from content[i] on
UnifyFrom(atoms, pattern, i) ==
    IF i > Len(atoms) THEN <<>>
    ELSE LET res == UnifyAtoms(atoms[i], pattern)
             bindings == ApplyBindingsToBindings(res[1].data_bindings,
                                                 res[1].pattern_bindings)
         IN  (IF res = None \/ bindings = None THEN <<>>
              ELSE <<[bindings |-> bindings[1],
                      unifications |-> res[1].unifications]>>)
             \o UnifyFrom(atoms, pattern, i + 1)

\* GroundingSpace::unify
Unify(atoms, pattern) == UnifyFrom(atoms, pattern, 1)

\* <GroundingSpace as Grounded>::match_
Match_(atoms, other, id) == Query(atoms, other, id)

\* the atoms the space is made of and added to
SubstAtoms ==
    { Expr(<<Sym("A"), Sym("B")>>),
      Expr(<<COMMA_SYMBOL, Expr(<<Sym("A"), Sym("B")>>),
                           Expr(<<Sym("A"), Sym("C")>>)>>) }

\* GroundingSpace::new and the from_vec of the subst example
SubstSeeds ==
    { <<>>, <<Expr(<<Sym("A"), Sym("B")>>), Expr(<<Sym("A"), Sym("C")>>)>> }

\* the patterns of query, subst and match_
SubstPatterns ==
    { Expr(<<Sym("A"), Var("x")>>),
      Expr(<<COMMA_SYMBOL>>),
      Expr(<<COMMA_SYMBOL, Expr(<<Sym("A"), Sym("B")>>),
                           Expr(<<Sym("A"), Sym("C")>>)>>),
      Expr(<<COMMA_SYMBOL, Expr(<<Sym("A"), Var("x")>>),
                           Expr(<<Sym("A"), Var("y")>>)>>) }

\* the templates of subst
SubstTemplates ==
    { Expr(<<Sym("D"), Var("x")>>), Expr(<<Sym("D"), Var("x"), Var("z")>>) }

\* the patterns of unify
UnifyPatterns == { Expr(<<Sym("A"), Var("x")>>), Var("x") }

\* space.subst(&pattern, &template)
SubstCall(s, pattern, template) ==
    LET found == Query(content[s], pattern, <<>>)
        value == Subst(content[s], pattern, template, <<>>)
    IN  /\ Exists(s)
        /\ qLast' = [op |-> "subst", query |-> pattern,
                     content |-> content[s], ok |-> value.ok,
                     result |-> found.result, made |-> TRUE,
                     template |-> template, atoms |-> value.result]
        /\ UNCHANGED <<spaceVars, envVars, idxVars, interpVars>>

\* space.unify(&pattern)
UnifyCall(s, pattern) ==
    /\ Exists(s)
    /\ qLast' = [op |-> "unify", query |-> pattern, content |-> content[s],
                 ok |-> TRUE, result |-> Unify(content[s], pattern),
                 made |-> FALSE, template |-> pattern, atoms |-> <<>>]
    /\ UNCHANGED <<spaceVars, envVars, idxVars, interpVars>>

\* space.match_(&other)
MatchCall(s, other) ==
    LET value == Match_(content[s], other, <<>>) IN
    /\ Exists(s)
    /\ qLast' = [op |-> "match_", query |-> other, content |-> content[s],
                 ok |-> value.ok, result |-> value.result, made |-> TRUE,
                 template |-> other, atoms |-> <<>>]
    /\ UNCHANGED <<spaceVars, envVars, idxVars, interpVars>>

\* one observer, registered once
NextSubst ==
    \/ registered[1] = <<>> /\ RegisterObserver(1, 1)
    \/ \E a \in SubstAtoms : Add(1, a)
    \/ \E q \in SubstPatterns : QueryCall(1, q)
    \/ \E q \in SubstPatterns, t \in SubstTemplates : SubstCall(1, q, t)
    \/ \E q \in UnifyPatterns : UnifyCall(1, q)
    \/ \E q \in SubstPatterns : MatchCall(1, q)

InitSubst ==
    /\ EnvInit
    /\ IndexInit
    /\ QueryInit
    /\ InterpInit
    /\ content \in [Spaces -> SubstSeeds]
    /\ content[2] = <<>>
    /\ observers = [s \in Spaces |-> <<>>]
    /\ cloned = FALSE
    /\ alive = [o \in Observers |-> TRUE]
    /\ events = [o \in Observers |-> <<>>]
    /\ base = content
    /\ added = [s \in Spaces |-> [only |-> TRUE, atoms |-> <<>>]]
    /\ ncalls = 0
    /\ last = NoCall
    /\ registered = [s \in Spaces |-> <<>>]
    /\ carried = <<>>
    /\ notified = <<>>
    /\ seen = [o \in Observers |-> <<>>]

SpecSubst == InitSubst /\ [][NextSubst]_vars

\* --------------------------------------------------- interpreter (C API)
\* the leaves of a plan
Pending(atom) == [leaf |-> "Pending", atom |-> atom]

Result(atom) == [leaf |-> "Result", atom |-> atom]

Failed(atom) == [leaf |-> "Error", atom |-> atom]

\* Result<Vec<Atom>, _>
Ok(atoms) == [ok |-> TRUE, atoms |-> atoms]

Err == [ok |-> FALSE, atoms |-> <<>>]

EQUAL_SYMBOL == Sym("=")

\* the grounded atoms that have an execute
ExecutableOps == {"first", "none", "fail"}

Executable(atom) == atom.kind = "Grounded" /\ atom.value \in ExecutableOps

\* execute of a grounded head on the argument children
Execute(head, args) ==
    CASE head.value = "first" -> IF args = <<>> THEN Err ELSE Ok(<<args[1]>>)
      [] head.value = "none" -> Ok(<<>>)
      [] OTHER -> Err

\* the right-hand sides of the stored (= lhs rhs) whose lhs matches expr,
\* one Pending leaf for each, in content order
Rewrites(atoms, expr) ==
    LET rhs == Var("rhs")
        found == SingleQuery(atoms, Expr(<<EQUAL_SYMBOL, expr, rhs>>), <<>>)
        bound == SelectSeq(found, LAMBDA b : rhs \in DOMAIN b)
    IN  [n \in 1..Len(bound) |-> Pending(bound[n][rhs])]

\* the reduction of one pending leaf: the leaves that take its place
StepLeaf(atoms, atom) ==
    IF ~IsExpr(atom) THEN <<Result(atom)>>
    ELSE IF Rewrites(atoms, atom) # <<>> THEN Rewrites(atoms, atom)
    ELSE IF Len(atom.children) > 0 /\ Executable(atom.children[1])
    THEN LET res == Execute(atom.children[1], Tail(atom.children)) IN
         IF res.ok THEN [n \in 1..Len(res.atoms) |-> Result(res.atoms[n])]
         ELSE <<Failed(atom)>>
    ELSE <<Result(atom)>>

\* InterpreterState::has_next
HasNext(plan) == \E i \in 1..Len(plan) : plan[i].leaf = "Pending"

\* one step: the leftmost pending leaf is advanced
PlanStep(atoms, plan) ==
    IF ~HasNext(plan) THEN plan
    ELSE LET i == CHOOSE i \in 1..Len(plan) :
                      /\ plan[i].leaf = "Pending"
                      /\ \A j \in 1..(i - 1) : plan[j].leaf # "Pending"
         IN  SubSeq(plan, 1, i - 1) \o StepLeaf(atoms, plan[i].atom)
                 \o SubSeq(plan, i + 1, Len(plan))

\* InterpreterState::into_result: the Result leaves in order; an error
\* when the plan has no Result leaf and an Error leaf
IntoResult(plan) ==
    LET results == SelectSeq(plan, LAMBDA l : l.leaf = "Result") IN
    IF results = <<>> /\ \E i \in 1..Len(plan) : plan[i].leaf = "Error"
    THEN Err
    ELSE Ok([n \in 1..Len(results) |-> results[n].atom])

\* return_atoms: the callback is called with the vector
ReturnAtoms(callbacks, atoms) == Append(callbacks, atoms)

\* an interpret_init that only builds the plan
InterpretInitNoStep(s, expr) ==
    /\ Exists(s)
    /\ interp.state = "none"
    /\ interp' = [state |-> "live", expr |-> expr, atoms |-> content[s],
                  plan |-> <<Pending(expr)>>, steps |-> 0,
                  callbacks |-> <<>>]
    /\ UNCHANGED <<spaceVars, envVars, idxVars, qVars>>

\* interpret_init(space, expr): the initial plan, and one step
InterpretInit(s, expr) ==
    /\ Exists(s)
    /\ interp.state = "none"
    /\ interp' = [state |-> "live", expr |-> expr, atoms |-> content[s],
                  plan |-> PlanStep(content[s], <<Pending(expr)>>),
                  steps |-> 0, callbacks |-> <<>>]
    /\ UNCHANGED <<spaceVars, envVars, idxVars, qVars>>

\* interpret_step(step), called while step_has_next(step)
InterpretStep(s) ==
    /\ interp.state = "live"
    /\ HasNext(interp.plan)
    /\ interp.steps < MaxInterpSteps
    /\ interp' = [interp EXCEPT !.plan = PlanStep(content[s], @),
                                !.steps = @ + 1]
    /\ UNCHANGED <<spaceVars, envVars, idxVars, qVars>>

\* a step_get_result that keeps an error to itself
StepGetResultSilentErr ==
    LET res == IntoResult(interp.plan) IN
    /\ interp.state = "live"
    /\ interp' = [interp EXCEPT
                     !.state = "consumed",
                     !.callbacks = IF res.ok THEN ReturnAtoms(@, res.atoms)
                                   ELSE @]
    /\ UNCHANGED <<spaceVars, envVars, idxVars, qVars>>

\* step_get_result(step, callback, context): the state is consumed
StepGetResult ==
    LET res == IntoResult(interp.plan) IN
    /\ interp.state = "live"
    /\ interp' = [interp EXCEPT
                     !.state = "consumed",
                     !.callbacks = IF res.ok THEN ReturnAtoms(@, res.atoms)
                                   ELSE ReturnAtoms(@, <<>>)]
    /\ UNCHANGED <<spaceVars, envVars, idxVars, qVars>>

\* the rewrite rules stored in the space
InterpRules ==
    { Expr(<<EQUAL_SYMBOL, Expr(<<Sym("f")>>), Expr(<<Sym("g")>>)>>),
      Expr(<<EQUAL_SYMBOL, Expr(<<Sym("f")>>),
             Expr(<<Gnd("fail"), Sym("A")>>)>>) }

InterpSeeds ==
    { <<>>,
      <<Expr(<<EQUAL_SYMBOL, Expr(<<Sym("f")>>), Expr(<<Sym("g")>>)>>),
        Expr(<<EQUAL_SYMBOL, Expr(<<Sym("g")>>), Sym("A")>>)>> }

\* the atoms interpreted
InterpExprs ==
    { Sym("A"),
      Expr(<<Sym("h"), Sym("A")>>),
      Expr(<<Gnd("42"), Sym("A")>>),
      Expr(<<Sym("f")>>),
      Expr(<<Gnd("first"), Sym("A"), Sym("B")>>),
      Expr(<<Gnd("none")>>),
      Expr(<<Gnd("fail"), Sym("A")>>) }

NextInterp ==
    \/ \E a \in InterpRules : Add(1, a)
    \/ \E e \in InterpExprs : InterpretInit(1, e)
    \/ InterpretStep(1)
    \/ StepGetResult

InitInterp ==
    /\ EnvInit
    /\ IndexInit
    /\ QueryInit
    /\ InterpInit
    /\ content \in [Spaces -> InterpSeeds]
    /\ content[2] = <<>>
    /\ observers = [s \in Spaces |-> <<>>]
    /\ cloned = FALSE
    /\ alive = [o \in Observers |-> TRUE]
    /\ events = [o \in Observers |-> <<>>]
    /\ base = content
    /\ added = [s \in Spaces |-> [only |-> TRUE, atoms |-> <<>>]]
    /\ ncalls = 0
    /\ last = NoCall
    /\ registered = [s \in Spaces |-> <<>>]
    /\ carried = <<>>
    /\ notified = <<>>
    /\ seen = [o \in Observers |-> <<>>]

SpecInterp == InitInterp /\ [][NextInterp]_vars

TypeOK ==
    /\ \A s \in Spaces : Range(content[s]) \subseteq AtomPool
    /\ \A s \in Spaces : Range(observers[s]) \subseteq Observers
    /\ ncalls <= MaxCalls

\* ------------------------------------------------------- claim vocabulary
Count(x, seq) == Cardinality({i \in 1..Len(seq) : seq[i] = x})

Repeat(x, n) == [i \in 1..n |-> x]

EventsOf(calls) == [i \in 1..Len(calls) |-> calls[i].ev]

\* the step is an add / remove / replace call; last' describes it
CallStep == ncalls' = ncalls + 1

\* every entry the observer list of space s was given: the list its clone
\* source had when s was cloned from it, then the registrations on s
Origin(s) == (IF s = 2 THEN carried ELSE <<>>) \o registered[s]

\* observer o was registered exactly once, and that on space s
RegisteredOnce(o, s) ==
    /\ Count(o, registered[s]) = 1
    /\ \A t \in Spaces \ {s} : Count(o, registered[t]) = 0

\* the spaces whose observer list holds the one registration of o on s
Notifying(o, s) ==
    {s} \cup (IF s = 1 /\ Count(o, carried) > 0 THEN {2} ELSE {})

\* seq is P with the first element equal to a taken out
FirstTakenOut(P, a, seq) ==
    \E i \in 1..Len(P) :
        /\ P[i] = a
        /\ \A j \in 1..(i - 1) : P[j] # a
        /\ seq = SubSeq(P, 1, i - 1) \o SubSeq(P, i + 1, Len(P))

C2_NotFoundNoEffect ==
    [][ (/\ CallStep
         /\ last'.ev[1] \in {"Remove", "Replace"}
         /\ last'.ev[2] \notin Range(content[last'.sp]))
        => (/\ last'.ok = FALSE
            /\ content' = content
            /\ events' = events
            /\ observers' = observers) ]_vars

\* a replace returned false on a non-empty space watched by a live
\* collector that holds an earlier event
C2_Witness ==
    /\ last.sp = 1
    /\ last.ev # <<>>
    /\ last.ev[1] = "Replace"
    /\ ~last.ok
    /\ content[1] # <<>>
    /\ \E o \in Observers :
          alive[o] /\ Count(o, observers[1]) > 0 /\ Len(events[o]) = 1

\* ------------------------------------------------------------------ C3
\* C3 as stated: for every state S and atom A, add(A) followed by
\* remove(&A) returns true and leaves the content sequence equal to S.
C3_AddRemoveRestores ==
    last.afterAdd => (last.ok /\ content[last.sp] = last.pre2)

\* C3 amended: add(A) followed by remove(&A) returns true; the content is
\* again S when S holds no atom equal to A; when S holds one, the first
\* atom of S equal to A is the one removed, so the content is S with that
\* atom taken out and A appended at the end.
C3_AddRemoveFirst ==
    last.afterAdd =>
        LET S == last.pre2
            A == last.ev[2]
            now == content[last.sp]
        IN  /\ last.ok
            /\ IF A \notin Range(S)
               THEN now = S
               ELSE /\ now # <<>>
                    /\ now[Len(now)] = A
                    /\ FirstTakenOut(S, A, SubSeq(now, 1, Len(now) - 1))

\* add(A) then remove(&A) ran on a non-empty space holding no A
C3_Witness ==
    /\ last.afterAdd
    /\ last.pre2 # <<>>
    /\ last.ev[2] \notin Range(last.pre2)
    /\ content[last.sp] = last.pre2

\* ------------------------------------------------------------------ C4
\* C4: a remove(a) on a space holding an atom equal to a returns true and
\* deletes exactly the first such atom: the length drops by one, all other
\* atoms (later duplicates of a too) keep their order, and every live
\* observer receives exactly one Remove(a) per registration.
C4_RemoveFirst ==
    [][ (/\ CallStep
         /\ last'.ev[1] = "Remove"
         /\ last'.ev[2] \in Range(content[last'.sp]))
        => LET s == last'.sp
               a == last'.ev[2]
           IN  /\ last'.ok
               /\ Len(content'[s]) = Len(content[s]) - 1
               /\ FirstTakenOut(content[s], a, content'[s])
               /\ \A o \in Observers : alive[o] =>
                     events'[o] = events[o] \o
                         Repeat(RemoveEvent(a), Count(o, Origin(s))) ]_vars

\* a remove returned true, a later duplicate of the atom is still in the
\* content, and a live collector holds the Remove event as its last event
C4_Witness ==
    /\ last.ok
    /\ last.ev[1] = "Remove"
    /\ last.ev[2] \in Range(content[last.sp])
    /\ content[last.sp][1] # last.ev[2]
    /\ \E o \in Observers :
          /\ alive[o]
          /\ events[o] # <<>>
          /\ events[o][Len(events[o])] = last.ev

\* ------------------------------------------------------------------ C5
\* C5: a replace(old, new) on a space holding an atom equal to old returns
\* true and overwrites the first such atom in place: the length and the
\* atoms at all other positions are unchanged, and every live observer
\* receives exactly one Replace(old, new) per registration.
C5_ReplaceInPlace ==
    [][ (/\ CallStep
         /\ last'.ev[1] = "Replace"
         /\ last'.ev[2] \in Range(content[last'.sp]))
        => LET s == last'.sp
               old == last'.ev[2]
               new == last'.ev[3]
               P == content[s]
               Q == content'[s]
           IN  /\ last'.ok
               /\ Len(Q) = Len(P)
               /\ \E i \in 1..Len(P) :
                     /\ P[i] = old
                     /\ \A j \in 1..(i - 1) : P[j] # old
                     /\ Q[i] = new
                     /\ \A k \in 1..Len(P) : k # i => Q[k] = P[k]
               /\ \A o \in Observers : alive[o] =>
                     events'[o] = events[o] \o
                         Repeat(ReplaceEvent(old, new), Count(o, Origin(s)))
      ]_vars

\* a replace by a different atom returned true at a position that is not
\* the last, and a live collector holds the Replace event as its last event
C5_Witness ==
    /\ last.ok
    /\ last.ev[1] = "Replace"
    /\ last.ev[2] # last.ev[3]
    /\ Len(last.pre) >= 2
    /\ last.pre[1] = last.ev[2]
    /\ content[last.sp][1] = last.ev[3]
    /\ \E o \in Observers :
          /\ alive[o]
          /\ events[o] # <<>>
          /\ events[o][Len(events[o])] = last.ev

\* ------------------------------------------------------------------ C6
\* C6: while add is the only call made on a space, its content is the
\* content it was constructed with followed by the added atoms in call
\* order (an atom equal to one already present is appended too), and a
\* live collector registered once on it holds exactly one Add(a) for each
\* add made since its registration, in call order.
C6_AddAppends ==
    \A s \in Spaces : added[s].only =>
        /\ content[s] = base[s] \o added[s].atoms
        /\ \A o \in Observers :
              (alive[o] /\ RegisteredOnce(o, s) /\ Notifying(o, s) = {s}) =>
                  LET n == Len(added[s].atoms)
                      k == Len(SelectSeq(seen[o], LAMBDA c : c.sp = s))
                  IN  events[o] =
                          [i \in 1..k |-> AddEvent(added[s].atoms[n - k + i])]

\* two adds of an atom the seed already holds, seen by a live collector
C6_Witness ==
    /\ added[1].only
    /\ Len(added[1].atoms) = 2
    /\ added[1].atoms[1] = added[1].atoms[2]
    /\ added[1].atoms[1] \in Range(base[1])
    /\ \E o \in Observers :
          alive[o] /\ RegisteredOnce(o, 1) /\ Len(events[o]) = 2

\* ------------------------------------------------------------------ C7
\* C7: an observer registered on the original before the clone was taken,
\* and never registered on the clone, is not notified by an add / remove /
\* replace on the clone.
C7_CloneDoesNotNotifyCarried ==
    \A o \in Observers :
        (Count(o, carried) > 0 /\ Count(o, registered[2]) = 0 /\ last.sp = 2)
            => Count(o, notified) = 0

\* ------------------------------------------------------------------ C8
\* C8: an add / remove / replace on a space never changes the content
\* sequence of the other space (the original or its clone).
C8_ContentIndependent ==
    [][ CallStep =>
           \A t \in Spaces \ {last'.sp} : content'[t] = content[t] ]_vars

\* the clone was changed by a call and the original still has the content
\* the clone was taken from
C8_Witness ==
    /\ cloned
    /\ last.sp = 2
    /\ last.ok
    /\ content[2] # base[2]
    /\ content[1] = base[2]
    /\ content[1] # <<>>

\* ------------------------------------------------------------------ C9
\* C9: when an add, a successful remove or a successful replace returns,
\* the observer list of the space holds no dropped observer and holds
\* every entry of a live observer, in registration order.
C9_DeadObserversPurged ==
    [][ (CallStep /\ last'.ok) =>
           observers'[last'.sp] =
               SelectSeq(Origin(last'.sp), LAMBDA o : alive[o]) ]_vars

\* a call returned true, the list is shorter than the registrations made
\* and still holds a live observer
C9_Witness ==
    /\ last.ok
    /\ Len(observers[1]) < Len(registered[1])
    /\ observers[1] # <<>>
    /\ \A i \in 1..Len(observers[1]) : alive[observers[1][i]]

\* ----------------------------------------------------------------- C10
\* C10: an add, a successful remove or a successful replace notifies,
\* before it returns, every live observer once per registration and in
\* registration order; dropped observers are passed over.
C10_NotifiedInRegistrationOrder ==
    [][ (CallStep /\ last'.ok) =>
           /\ notified' = SelectSeq(Origin(last'.sp), LAMBDA o : alive[o])
           /\ \A o \in Observers : alive[o] =>
                 events'[o] = events[o] \o
                     Repeat(last'.ev, Count(o, Origin(last'.sp))) ]_vars

\* three observers were registered, the second was dropped, and a call
\* notified the first and then the third
C10_Witness ==
    /\ last.ok
    /\ Len(registered[1]) = 3
    /\ ~alive[registered[1][2]]
    /\ notified = <<registered[1][1], registered[1][3]>>
    /\ registered[1][1] # registered[1][3]
    /\ events[registered[1][1]] = <<last.ev>>
    /\ events[registered[1][3]] = <<last.ev>>

\* ------------------------------------------------------------------ C11
\* one environment_* call
EnvStep == envCalls' = envCalls + 1

Setters ==
    {"set_working_dir", "set_config_dir", "disable_config_dir",
     "add_include_path"}

\* the setters that reject a NULL path
NullRejecting == {"set_config_dir", "add_include_path"}

\* the call of this step ended the process with a fatal error
EnvFatalStep == envFatal = "none" /\ envFatal' # "none"

\* the two state changes of the lifecycle
C11_OnlyTheTwoChanges ==
    envState' # envState =>
        \/ /\ envLast'.op = "init_start"
           /\ envState = "Uninitialized" /\ envState' = "InProcess"
        \/ /\ envLast'.op = "init_finish"
           /\ envState = "InProcess" /\ envState' = "Finished"

C11_FatalOutsideInProcess ==
    (envLast'.op \in Setters \cup {"init_finish"} /\ envState # "InProcess")
        => EnvFatalStep

\* C11 as stated: the state changes only Uninitialized -> InProcess in
\* environment_init_start and InProcess -> Finished in
\* environment_init_finish; init_finish and every setter called while the
\* state is not InProcess is a fatal error; every setter called in InProcess
\* leaves the state InProcess with a builder present.
C11_EverySetterKeepsBuilder ==
    [][EnvStep =>
        /\ C11_OnlyTheTwoChanges
        /\ C11_FatalOutsideInProcess
        /\ (envLast'.op \in Setters /\ envState = "InProcess")
              => (envState' = "InProcess" /\ envBuilder' # None)]_vars

\* C11 (amended): the state changes only Uninitialized -> InProcess in
\* environment_init_start and InProcess -> Finished in
\* environment_init_finish; init_finish and every setter called while the
\* state is not InProcess is a fatal error; a setter called in InProcess
\* returns and leaves the state InProcess with a builder present, except
\* set_config_dir and add_include_path with a NULL path, which are a fatal
\* error that leaves the state InProcess and the builder slot empty.
C11_SetterKeepsBuilderUnlessNull ==
    [][EnvStep =>
        /\ C11_OnlyTheTwoChanges
        /\ C11_FatalOutsideInProcess
        /\ (envLast'.op \in Setters /\ envState = "InProcess")
              => IF envLast'.op \in NullRejecting /\ envLast'.arg = "NULL"
                 THEN /\ EnvFatalStep
                      /\ envState' = "InProcess" /\ envBuilder' = None
                 ELSE /\ envFatal' = "none"
                      /\ envState' = "InProcess" /\ envBuilder' # None]_vars

\* a setter was called in InProcess with a path and returned
C11_Witness ==
    /\ envLast.op = "add_include_path" /\ envLast.arg = "p"
    /\ envLast.from = "InProcess"
    /\ envFatal = "none"
    /\ envState = "InProcess" /\ envBuilder # None

\* ------------------------------------------------------------------ C12
\* C12: environment_init_start returns at most once; every call of it made
\* while the state is InProcess or Finished is a fatal error that changes
\* nothing; the state never returns to Uninitialized and never leaves
\* Finished.
C12_StartOnceNoWayBack ==
    /\ [](envStarts <= 1)
    /\ [][EnvStep =>
            /\ (envLast'.op = "init_start" /\ envState # "Uninitialized")
                  => (EnvFatalStep /\ envState' = envState
                      /\ envBuilder' = envBuilder)
            /\ (envState # "Uninitialized" => envState' # "Uninitialized")
            /\ (envState = "Finished" => envState' = "Finished")]_vars

\* environment_init_start was called after the initialisation had finished
C12_Witness ==
    /\ envLast.op = "init_start" /\ envLast.from = "Finished"
    /\ envState = "Finished" /\ envFatal = PanicOnce /\ envStarts = 1

\* ------------------------------------------------------------------ C13
RECURSIVE StructMatch(_, _)

\* structural match of a stored atom and a pattern: a variable or grounded
\* atom on either side matches anything, symbols match when equal,
\* expressions when they have the same length and matching children
StructMatch(stored, pattern) ==
    CASE stored.kind \in {"Variable", "Grounded"} -> TRUE
      [] pattern.kind \in {"Variable", "Grounded"} -> TRUE
      [] stored.kind = "Symbol" /\ pattern.kind = "Symbol" -> stored = pattern
      [] stored.kind = "Expression" /\ pattern.kind = "Expression" ->
            /\ Len(stored.children) = Len(pattern.children)
            /\ \A i \in 1..Len(stored.children) :
                  StructMatch(stored.children[i], pattern.children[i])
      [] OTHER -> FALSE

\* the last call was a get of an index built by add calls only
GotAddOnly == idxLast.op = "get" /\ idxRemoves = 0

StoredIndexes == 1..Len(idxStored)

\* C13: get(pattern) holds the payload of every stored atom that
\* structurally matches the pattern, also when another stored atom equals
\* the pattern or one of its sub-expressions.
C13_NoFalseNegatives ==
    GotAddOnly =>
        \A i \in StoredIndexes :
            StructMatch(idxStored[i].atom, idxLast.atom)
                => idxStored[i].value \in Range(idxLast.got)

\* ------------------------------------------------------------------ C14
\* C14: every payload get(pattern) returns was added for an atom that
\* structurally matches the pattern: never for an atom with a different
\* symbol at a position, a different length, or a symbol against an
\* expression; with ((A) B) -> 1 and ($a C) -> 2 stored, ($a B) gets
\* exactly 1 and ((A) C) exactly 2.
C14_NoFalsePositives ==
    idxLast.op = "get" =>
        /\ \A v \in Range(idxLast.got) :
              \E i \in StoredIndexes :
                  /\ idxStored[i].value = v
                  /\ StructMatch(idxStored[i].atom, idxLast.atom)
        /\ (idxStored = <<Pair(Expr(<<Expr(<<Sym("A")>>), Sym("B")>>), 1, TRUE),
                          Pair(Expr(<<Var("a"), Sym("C")>>), 2, TRUE)>>)
              => /\ idxLast.atom = Expr(<<Var("a"), Sym("B")>>)
                    => idxLast.got = <<1>>
                 /\ idxLast.atom = Expr(<<Expr(<<Sym("A")>>), Sym("C")>>)
                    => idxLast.got = <<2>>

\* the lookup of ($a B) in the index of ((A) B) -> 1 and ($a C) -> 2
C14_Witness ==
    /\ idxStored = <<Pair(Expr(<<Expr(<<Sym("A")>>), Sym("B")>>), 1, TRUE),
                     Pair(Expr(<<Var("a"), Sym("C")>>), 2, TRUE)>>
    /\ idxLast.op = "get"
    /\ idxLast.atom = Expr(<<Var("a"), Sym("B")>>)
    /\ idxLast.got = <<1>>

\* ------------------------------------------------------------------ C15
\* number of added pairs with a value
Adds(v) == Cardinality({i \in StoredIndexes : idxStored[i].value = v})

\* C15: in an index built by add calls, the payload of a stored top-level
\* variable or grounded atom is returned for every pattern, and the get of
\* a top-level variable or grounded pattern returns the payload of every
\* atom added, once for each add.
C15_TopLevelWildcards ==
    GotAddOnly =>
        /\ \A i \in StoredIndexes :
              idxStored[i].atom.kind \in {"Variable", "Grounded"}
                  => idxStored[i].value \in Range(idxLast.got)
        /\ idxLast.atom.kind \in {"Variable", "Grounded"}
              => \A v \in Values : Count(v, idxLast.got) = Adds(v)

\* a variable pattern got the payloads of an expression added twice and of
\* a stored variable
C15_Witness ==
    /\ GotAddOnly
    /\ idxLast.atom = Var("b")
    /\ idxStored = <<Pair(Expr(<<Expr(<<Sym("A")>>), Sym("B")>>), 1, TRUE),
                     Pair(Expr(<<Expr(<<Sym("A")>>), Sym("B")>>), 1, TRUE),
                     Pair(Var("a"), 2, TRUE)>>
    /\ Count(1, idxLast.got) = 2 /\ Count(2, idxLast.got) = 1

\* ------------------------------------------------------------------ C16
\* one remove call
RemoveStep == idxRemoves' = idxRemoves + 1

\* C16: remove(atom, payload) returns true iff the pair was added and not
\* removed since, so that after k adds of a pair exactly the first k removes
\* return true; a remove that returns false changes nothing.
C16_RemoveOnePerAdd ==
    [][RemoveStep =>
        /\ idxLast'.ret <=>
              Position(idxStored,
                       Pair(idxLast'.atom, idxLast'.value, TRUE)) # 0
        /\ ~idxLast'.ret => idx' = idx]_vars

\* ------------------------------------------------------------------ C17
RECURSIVE SubAtoms(_)

\* an atom and the atoms inside it
SubAtoms(atom) ==
    IF IsExpr(atom)
    THEN {atom} \cup UNION {SubAtoms(atom.children[i]) :
                               i \in 1..Len(atom.children)}
    ELSE {atom}

\* the atoms inside a vector of atoms
SubAtomsOf(atoms) == UNION {SubAtoms(atoms[i]) : i \in 1..Len(atoms)}

\* atom is stored with its variables replaced by atoms
InstanceOf(atom, stored) ==
    \E theta \in [CollectVariables(stored) -> SubAtoms(atom)] :
        ApplyBindingsToAtom(stored, theta) = atom

IsGround(atom) == CollectVariables(atom) = {}

IsConjunction(query) ==
    /\ IsExpr(query) /\ Len(query.children) > 0
    /\ query.children[1] = COMMA_SYMBOL

\* the last call was a conjunctive query that returned
Conjoined == qLast.made /\ qLast.ok /\ IsConjunction(qLast.query)

\* the last call was a non-conjunctive query that returned
Single == qLast.made /\ qLast.ok /\ ~IsConjunction(qLast.query)

SubQueries == {qLast.query.children[j] : j \in 2..Len(qLast.query.children)}

\* the Bindings of all variables of the compound query under which every
\* sub-query is a content atom
Satisfying ==
    {b \in [CollectVariables(qLast.query) -> SubAtomsOf(qLast.content)] :
        \A q \in SubQueries :
            ApplyBindingsToAtom(q, b) \in Range(qLast.content)}

\* C17: every Bindings of a comma-headed query satisfies all sub-queries
\* at once: each sub-query with the Bindings applied is an instance of a
\* content atom; on ground content the result holds exactly the Bindings
\* under which every sub-query is a content atom, so it is empty when a
\* sub-query has no match compatible with the others.
C17_Conjunction ==
    Conjoined =>
        /\ \A n \in 1..Len(qLast.result), q \in SubQueries :
              \E i \in 1..Len(qLast.content) :
                  InstanceOf(ApplyBindingsToAtom(q, qLast.result[n]),
                             qLast.content[i])
        /\ (\A i \in 1..Len(qLast.content) : IsGround(qLast.content[i]))
              => Range(qLast.result) = Satisfying

\* (, (A $x) ($x C)) on a space holding (A B) and (B C)
C17_Witness ==
    /\ Conjoined
    /\ qLast.query = Expr(<<COMMA_SYMBOL, Expr(<<Sym("A"), Var("x")>>),
                                          Expr(<<Var("x"), Sym("C")>>)>>)
    /\ qLast.result = <<(Var("x") :> Sym("B"))>>

\* ------------------------------------------------------------------ C18
\* C18: the keys of every Bindings of a comma-headed query are variables
\* of the compound query.
C18_OnlyQueryVariables ==
    Conjoined =>
        \A n \in 1..Len(qLast.result) :
            DOMAIN qLast.result[n] \subseteq CollectVariables(qLast.query)

\* the sub-queries went through the variable of the stored (P $t $t)
C18_Witness ==
    /\ Conjoined
    /\ qLast.query = Expr(<<COMMA_SYMBOL,
                            Expr(<<Sym("P"), Var("x"), Var("y")>>),
                            Expr(<<Sym("A"), Var("x")>>)>>)
    /\ Expr(<<Sym("P"), Var("t"), Var("t")>>) \in Range(qLast.content)
    /\ (Var("x") :> Sym("B") @@ Var("y") :> Sym("B")) \in Range(qLast.result)

\* ------------------------------------------------------------------ C19
\* the i-th content atom as single_query matches it
Fresh(i) == MakeVariablesUnique(qLast.content[i], <<i>>)

\* C19: for every content atom and Bindings B of the variables of a
\* non-conjunctive query q with q under B equal to the atom (its variables
\* renamed fresh), the result holds B; a ground query gets one empty
\* Bindings for each content atom equal to it, a variable query $x gets
\* {x -> atom} for each content atom in turn.
C19_Complete ==
    Single =>
        /\ \A i \in 1..Len(qLast.content) :
              \A b \in [CollectVariables(qLast.query) -> SubAtoms(Fresh(i))] :
                  ApplyBindingsToAtom(qLast.query, b) = Fresh(i)
                      => b \in Range(qLast.result)
        /\ IsGround(qLast.query)
              => Count(EmptyBindings, qLast.result)
                     >= Count(qLast.query, qLast.content)
        /\ IsVar(qLast.query)
              => qLast.result = [i \in 1..Len(qLast.content) |->
                                    (qLast.query :> Fresh(i))]

\* (A $x) found the (A B) added behind another atom
C19_Witness ==
    /\ Single
    /\ qLast.query = Expr(<<Sym("A"), Var("x")>>)
    /\ Len(qLast.content) >= 2
    /\ qLast.content[Len(qLast.content)] = Expr(<<Sym("A"), Sym("B")>>)
    /\ last.ok /\ last.ev = AddEvent(Expr(<<Sym("A"), Sym("B")>>))
    /\ (Var("x") :> Sym("B")) \in Range(qLast.result)

PerAtom(i) == MatchAtoms(Fresh(i), qLast.query)

\* the results assigned to content atom i by the non-decreasing f
Assigned(f, i) ==
    LET ns == {n \in DOMAIN f : f[n] = i} IN
    IF ns = {} THEN <<>>
    ELSE SubSeq(qLast.result,
                CHOOSE n \in ns : \A m \in ns : n <= m,
                CHOOSE n \in ns : \A m \in ns : m <= n)

\* C21: the Bindings of a non-conjunctive query are ordered by the position
\* of the matched atom in the content the call found (the content after
\* all earlier mutations): the result splits, in order,
\* into the results of content[1], content[2], .., and each occurrence of a
\* duplicated atom contributes its own.
C21_ContentOrder ==
    Single =>
        \E f \in [1..Len(qLast.result) -> 1..Len(qLast.content)] :
            /\ \A n, m \in DOMAIN f : n < m => f[n] <= f[m]
            /\ \A i \in 1..Len(qLast.content) : Assigned(f, i) = PerAtom(i)

\* $x on a space where (A B) was added a second time, behind (B C)
C21_Witness ==
    /\ Single
    /\ qLast.query = Var("x")
    /\ last.ok /\ last.ev = AddEvent(Expr(<<Sym("A"), Sym("B")>>))
    /\ qLast.content = <<Expr(<<Sym("A"), Sym("B")>>),
                         Expr(<<Sym("B"), Sym("C")>>),
                         Expr(<<Sym("A"), Sym("B")>>)>>
    /\ qLast.result = <<(Var("x") :> Expr(<<Sym("A"), Sym("B")>>)),
                        (Var("x") :> Expr(<<Sym("B"), Sym("C")>>)),
                        (Var("x") :> Expr(<<Sym("A"), Sym("B")>>))>>

\* ------------------------------------------------------------------ C22
\* the last call was a subst that returned
Substituted == qLast.op = "subst" /\ qLast.ok

\* C22: subst(pattern, template) returns a vector as long as
\* query(pattern), whose i-th element is template with the i-th Bindings of
\* query(pattern) applied; the template's variables that the Bindings do
\* not bind are still in it.
C22_SubstFollowsQuery ==
    Substituted =>
        /\ qLast.result = Query(qLast.content, qLast.query, <<>>).result
        /\ Len(qLast.atoms) = Len(qLast.result)
        /\ \A n \in 1..Len(qLast.result) :
              /\ qLast.atoms[n]
                     = ApplyBindingsToAtom(qLast.template, qLast.result[n])
              /\ CollectVariables(qLast.template) \ DOMAIN qLast.result[n]
                     \subseteq CollectVariables(qLast.atoms[n])

\* subst((A $x), (D $x $z)) on (A B), (A C): $z stays
C22_Witness ==
    /\ Substituted
    /\ qLast.query = Expr(<<Sym("A"), Var("x")>>)
    /\ qLast.template = Expr(<<Sym("D"), Var("x"), Var("z")>>)
    /\ qLast.content = <<Expr(<<Sym("A"), Sym("B")>>),
                         Expr(<<Sym("A"), Sym("C")>>)>>
    /\ qLast.atoms = <<Expr(<<Sym("D"), Sym("B"), Var("z")>>),
                       Expr(<<Sym("D"), Sym("C"), Var("z")>>)>>

\* ------------------------------------------------------------------ C29
\* the step is a query, subst, unify or match_ call
ReadStep == qLast' # qLast

\* C29: query, subst, unify and match_ leave the content and the observer
\* list of the space as they were and deliver no event to any observer.
C29_ReadOnly ==
    [][ReadStep =>
          /\ content' = content
          /\ observers' = observers
          /\ events' = events]_vars

\* a conjunctive query ran on a space whose registered observer had been
\* told of an add
C29_Witness ==
    /\ qLast.op = "query" /\ IsConjunction(qLast.query)
    /\ qLast.content = content[1] /\ Len(content[1]) >= 1
    /\ observers[1] = <<1>> /\ alive[1]
    /\ events[1] = <<AddEvent(Expr(<<Sym("A"), Sym("B")>>))>>

\* ------------------------------------------------------------------ C30
\* C30: the query made of the comma symbol alone returns exactly one empty
\* Bindings, whatever the content; a comma-headed query is answered from
\* its sub-queries only: when the first sub-query matches no content atom
\* the result is empty, also when the content holds the query itself.
C30_CommaNeverAPattern ==
    Conjoined =>
        /\ Len(qLast.query.children) = 1 => qLast.result = <<EmptyBindings>>
        /\ (/\ Len(qLast.query.children) > 1
            /\ \A i \in 1..Len(qLast.content) :
                  MatchAtoms(Fresh(i), qLast.query.children[2]) = <<>>)
              => qLast.result = <<>>

\* the stored (, (A B) (A C)) is not found by the query (, (A B) (A C))
C30_Witness ==
    /\ Conjoined
    /\ qLast.query = Expr(<<COMMA_SYMBOL, Expr(<<Sym("A"), Sym("B")>>),
                                          Expr(<<Sym("A"), Sym("C")>>)>>)
    /\ qLast.content = <<qLast.query>>
    /\ qLast.result = <<>>

\* the comma symbol alone, asked of the empty space
C30_EmptySpace ==
    /\ Conjoined
    /\ qLast.query = Expr(<<COMMA_SYMBOL>>)
    /\ qLast.content = <<>>
    /\ qLast.result = <<EmptyBindings>>

\* ------------------------------------------------------------------ C25
\* the number of keys of kind at the positions lo..hi of keys
KindCount(keys, kind, lo, hi) ==
    Cardinality({j \in lo..hi : keys[j].k = kind})

\* the positions of the ExpressionEnd keys that close the ExpressionBegin
\* at position k: popped after it, with balanced keys in between
ClosingEnds(keys, k) ==
    {e \in 1..(k - 1) :
        /\ keys[e].k = "ExpressionEnd"
        /\ KindCount(keys, "ExpressionBegin", e + 1, k - 1)
               = KindCount(keys, "ExpressionEnd", e + 1, k - 1)}

\* the keys of the atom of the last call
LastKeys == KeysFromAtom(idxLast.atom)

\* C25: in keys_from_atom(atom) the length stored in each ExpressionBegin
\* key is the number of keys popped after it up to and including its
\* matching ExpressionEnd; it never exceeds the number of keys left.
C25_SpanInvariant ==
    idxLast.op # "none" =>
        \A k \in DOMAIN LastKeys :
            LastKeys[k].k = "ExpressionBegin" =>
                /\ LastKeys[k].len <= k - 1
                /\ ClosingEnds(LastKeys, k) # {}
                /\ \A e \in ClosingEnds(LastKeys, k) :
                      (\A f \in ClosingEnds(LastKeys, k) : f <= e)
                          => LastKeys[k].len = k - e

\* ((A) B) was added: the inner expression spans 2 keys, the outer one 5
C25_Witness ==
    /\ idxLast.op = "add"
    /\ idxLast.atom = Expr(<<Expr(<<Sym("A")>>), Sym("B")>>)
    /\ LastKeys = <<KeyExpressionEnd, KeySymbol(Sym("B")), KeyExpressionEnd,
                    KeySymbol(Sym("A")),
                    KeyExpressionBegin(Expr(<<Sym("A")>>), 2),
                    KeyExpressionBegin(idxLast.atom, 5)>>

\* ------------------------------------------------------------------ C26
\* two vectors of payloads hold the same payloads, each as often
SamePayloads(got1, got2) == \A v \in Values : Count(v, got1) = Count(v, got2)

\* the step is remove(a, p) and the call before it was add(a, p)
RemoveAfterAddStep ==
    /\ RemoveStep
    /\ idxLast.op = "add"
    /\ idxLast'.atom = idxLast.atom
    /\ idxLast'.value = idxLast.value

\* C26: add(a, p) followed by remove(a, p) restores retrieval: every
\* pattern gets the payloads it got before the add.
C26_AddRemoveRoundTrip ==
    [][RemoveAfterAddStep =>
          \A q \in IndexPatterns :
              SamePayloads(IndexTreeGet(idx', q),
                           IndexTreeGet(idxLast.pre, q))]_vars

\* ------------------------------------------------------------------ C27
\* one add call
AddStep == idxLast'.op = "add" /\ idxCalls' = idxCalls + 1

\* C27: every payload a pattern gets before add(atom, payload) it still
\* gets after it, as often.
C27_GetMonotone ==
    [][AddStep =>
          \A q \in IndexPatterns, v \in Values :
              Count(v, IndexTreeGet(idx, q))
                  <= Count(v, IndexTreeGet(idx', q))]_vars

\* ------------------------------------------------------------------ C28
\* the field of the builder a setter writes
Option(op) ==
    CASE op = "set_working_dir" -> "working_dir"
      [] op \in {"set_config_dir", "disable_config_dir"} -> "config_dir"
      [] op = "add_include_path" -> "include_paths"
      [] OTHER -> "none"

\* the builder holds what the setter call set
Holds(b, call) ==
    CASE call.op = "set_working_dir" ->
            b.working_dir = (IF call.arg = "NULL" THEN "None" ELSE call.arg)
      [] call.op = "set_config_dir" -> b.config_dir = call.arg
      [] call.op = "disable_config_dir" -> b.config_dir = "disabled"
      [] call.op = "add_include_path" -> call.arg \in Range(b.include_paths)
      [] OTHER -> TRUE

\* thread t made its call while the state was InProcess, with a path the
\* call accepts
ProperCall(t) ==
    /\ envThreads[t].from = "InProcess"
    /\ ~(RejectsNull(envThreads[t].op) /\ envThreads[t].arg = "NULL")

\* C28: two threads that each make one setter call while the state is
\* InProcess both complete without a fatal error under every interleaving,
\* the state stays InProcess and the builder holds the option of each call;
\* a setter racing with environment_init_finish never finds the slot empty.
C28_ConcurrentUseSafe ==
    /\ \A t \in Threads : ProperCall(t) => envThreads[t].pc # "panicked"
    /\ (/\ \A t \in Threads :
              /\ ProperCall(t) /\ envThreads[t].pc = "done"
              /\ envThreads[t].op # "init_finish"
        /\ Option(envThreads[1].op) # Option(envThreads[2].op))
          => /\ envState = "InProcess"
             /\ envBuilder # None
             /\ \A t \in Threads : Holds(envBuilder[1], envThreads[t])

\* ------------------------------------------------------------------ C23
\* a stored (= lhs rhs)
IsRule(atom) ==
    /\ IsExpr(atom) /\ Len(atom.children) = 3
    /\ atom.children[1] = EQUAL_SYMBOL

\* no rule of the space the session started on applies to its atom, and
\* the head of the atom is not an executable grounded atom
OnData ==
    /\ interp.state # "none"
    /\ \A i \in 1..Len(interp.atoms) :
          IsRule(interp.atoms[i]) =>
              MatchAtoms(MakeVariablesUnique(interp.atoms[i].children[2],
                                             <<i>>),
                         interp.expr) = <<>>
    /\ ~(/\ IsExpr(interp.expr) /\ Len(interp.expr.children) > 0
         /\ Executable(interp.expr.children[1]))

\* C23: for an atom to which no stored rule applies and whose head is not
\* an executable grounded atom, the state interpret_init returns has
\* step_has_next false, and step_get_result hands the callback exactly
\* that atom.
C23_DataTerminates ==
    OnData =>
        /\ ~HasNext(interp.plan)
        /\ interp.steps = 0
        /\ IntoResult(interp.plan) = Ok(<<interp.expr>>)
        /\ interp.state = "consumed"
              => interp.callbacks = <<<<interp.expr>>>>

\* (h A) was interpreted on a space that holds rules for other expressions
C23_Witness ==
    /\ OnData
    /\ interp.state = "consumed"
    /\ interp.expr = Expr(<<Sym("h"), Sym("A")>>)
    /\ Len(interp.atoms) >= 2
    /\ interp.callbacks = <<<<Expr(<<Sym("h"), Sym("A")>>)>>>>

\* ------------------------------------------------------------------ C24
\* the step is step_get_result
GetResultStep == interp.state = "live" /\ interp'.state = "consumed"

\* C24: step_get_result calls the callback exactly once, with the result
\* atoms when into_result is Ok and with an empty vector when it is an
\* error; no other call reaches the callback.
C24_CallbackOnce ==
    [][IF GetResultStep
       THEN interp'.callbacks =
                Append(interp.callbacks,
                       IF IntoResult(interp.plan).ok
                       THEN IntoResult(interp.plan).atoms
                       ELSE <<>>)
       ELSE interp'.callbacks = interp.callbacks]_vars

\* a session that ended in an error was consumed: the callback got an
\* empty vector, as for the session of ((none)) that has no result
C24_Witness ==
    /\ interp.state = "consumed"
    /\ ~IntoResult(interp.plan).ok
    /\ interp.callbacks = <<<<>>>>

====
